---- MODULE Spec2Model ----
(***************************************************************************)
(* GTFSParser (src/utils/gtfs-parser.ts): the record store, the load       *)
(* transaction overrideData, the calendar resolver isServiceActiveOnDate   *)
(* and the trip query findTripsWithStops, with the callers that poll the   *)
(* loaded flag.                                                            *)
(*                                                                         *)
(* JavaScript runs every callback to completion on one thread.  The body   *)
(* of overrideData is modelled in its three source phases (clear, populate,*)
(* flags) so that the intermediate stores exist in the model; pc tells     *)
(* which phase is pending, and a reader callback can start only when no    *)
(* synchronous body is on the stack.                                       *)
(*                                                                         *)
(* TrainStorageService (src/unnamed/part_005): the persisted lists.  Its   *)
(* methods are async: each is modelled as a read step (getItem and the     *)
(* list update) and a write step (setItem), so two calls can interleave.   *)
(***************************************************************************)
EXTENDS Integers, Sequences, FiniteSets, TLC

VARIABLES
  store,       \* the fields of the GTFSParser singleton
  pc,          \* position inside overrideData: "idle", "populate", "flags"
  args,        \* the arguments of the latest overrideData call
  ret,         \* <<>> or <<r>>: what the running reader callback got back
  gtfsLoaded,  \* useShapes' React state that mirrors gtfsParser.isLoaded
  held,        \* the store-owned arrays the caller has a reference to
  AsyncStorage, \* the items of the device storage, by key
  calls        \* the TrainStorageService calls in flight or finished

\* The state of TrainStorageService (src/unnamed/part_005), untouched by the
\* parser and its readers.
disk == <<AsyncStorage, calls>>

vars == <<store, pc, args, ret, gtfsLoaded, held, AsyncStorage, calls>>

-----------------------------------------------------------------------------
(* JavaScript values *)

\* The value of a property that is absent from a row.
Undef == "<undefined>"

\* `if (x)` on a string-or-undefined value.
Truthy(x) == x # "" /\ x # Undef

RECURSIVE SeqToSet(_)
SeqToSet(s) == IF s = <<>> THEN {} ELSE {Head(s)} \cup SeqToSet(Tail(s))

\* times.findIndex(st => st.stop_id === stopId): 0-based, -1 when no row
\* has the stop id.
RECURSIVE FindIndexFrom(_, _, _)
FindIndexFrom(arr, stopId, i) ==
  IF i > Len(arr) THEN -1
  ELSE IF arr[i].stop_id = stopId THEN i - 1
  ELSE FindIndexFrom(arr, stopId, i + 1)

findIndex(arr, stopId) == FindIndexFrom(arr, stopId, 1)

\* Array.prototype.slice(from, to) with 0-based, in-range, non-negative bounds.
slice(arr, from, to) ==
  IF to <= from THEN <<>> ELSE SubSeq(arr, from + 1, to)

-----------------------------------------------------------------------------
(* Map<K, V>: entries in insertion order; set() on a present key keeps the   *)
(* key's position and replaces its value.                                   *)

EmptyMap == <<>>

MapHas(m, k) == \E i \in 1..Len(m) : m[i].k = k

MapIndex(m, k) == CHOOSE i \in 1..Len(m) : m[i].k = k

\* Map.get for a key that is present (callers test MapHas first).
MapGet(m, k) == m[MapIndex(m, k)].v

MapSet(m, k, v) ==
  IF MapHas(m, k)
  THEN [m EXCEPT ![MapIndex(m, k)] = [k |-> k, v |-> v]]
  ELSE Append(m, [k |-> k, v |-> v])

MapSize(m) == Len(m)

MapKeys(m) == [i \in 1..Len(m) |-> m[i].k]

MapValues(m) == [i \in 1..Len(m) |-> m[i].v]

-----------------------------------------------------------------------------
(* Rows of the feed (types/train) *)

Route(id, long, short) ==
  [route_id |-> id, route_long_name |-> long, route_short_name |-> short]

Stop(id, name) == [stop_id |-> id, stop_name |-> name]

Trip(id, route, short, headsign, service) ==
  [trip_id |-> id, route_id |-> route, trip_short_name |-> short,
   trip_headsign |-> headsign, service_id |-> service]

StopTime(stop, seq, arr, dep) ==
  [stop_id |-> stop, stop_sequence |-> seq, arrival_time |-> arr,
   departure_time |-> dep]

\* week is the tuple <<sunday, monday, ..., saturday>> of the entry's flags.
CalendarEntry(service, start, end, week) ==
  [service_id |-> service, start_date |-> start, end_date |-> end,
   sunday |-> week[1], monday |-> week[2], tuesday |-> week[3],
   wednesday |-> week[4], thursday |-> week[5], friday |-> week[6],
   saturday |-> week[7]]

CalendarDateException(service, date, type) ==
  [service_id |-> service, date |-> date, exception_type |-> type]

\* A null element of an input array.
NullRoute == Route(Undef, Undef, Undef)
NullStop == Stop(Undef, Undef)
NullTrip == Trip(Undef, Undef, Undef, Undef, Undef)
NullCalendarEntry ==
  CalendarEntry(Undef, 0, 0, <<FALSE, FALSE, FALSE, FALSE, FALSE, FALSE, FALSE>>)
NullException == CalendarDateException(Undef, 0, 0)

-----------------------------------------------------------------------------
(* The store *)

\* The field initialisers with `private _isLoaded = true`.
NewParser_loaded ==
  [routes |-> EmptyMap, stops |-> EmptyMap, stopTimes |-> EmptyMap,
   shapes |-> EmptyMap, trips |-> EmptyMap, tripsByNumber |-> EmptyMap,
   calendarEntries |-> EmptyMap, calendarDateExceptions |-> EmptyMap,
   hasCalendarData |-> FALSE, _isLoaded |-> TRUE]

\* The field initialisers of the class.
NewParser ==
  [routes |-> EmptyMap, stops |-> EmptyMap, stopTimes |-> EmptyMap,
   shapes |-> EmptyMap, trips |-> EmptyMap, tripsByNumber |-> EmptyMap,
   calendarEntries |-> EmptyMap, calendarDateExceptions |-> EmptyMap,
   hasCalendarData |-> FALSE, _isLoaded |-> FALSE]

\* get isLoaded()
isLoaded(s) == s._isLoaded

\* The arguments of overrideData; the last four default to empty.
Args(routes, stops, stopTimes, shapes, trips, calendar, calendarDates) ==
  [routes |-> routes, stops |-> stops, stopTimes |-> stopTimes,
   shapes |-> shapes, trips |-> trips, calendar |-> calendar,
   calendarDates |-> calendarDates]

NoArgs == Args(<<>>, <<>>, <<>>, <<>>, <<>>, <<>>, <<>>)

-----------------------------------------------------------------------------
(* overrideData *)

\* Array.isArray(times): the declared type Record<string, T[]> holds arrays.
IsArray(v) == Len(v) >= 0

\* this.routes.clear() ... this.calendarDateExceptions.clear()
clearMaps_keepTrips(s) ==
  [s EXCEPT !.routes = EmptyMap, !.stops = EmptyMap, !.stopTimes = EmptyMap,
            !.shapes = EmptyMap, !.calendarEntries = EmptyMap,
            !.calendarDateExceptions = EmptyMap]

clearMaps(s) ==
  [s EXCEPT !.routes = EmptyMap, !.stops = EmptyMap, !.stopTimes = EmptyMap,
            !.shapes = EmptyMap, !.trips = EmptyMap,
            !.tripsByNumber = EmptyMap, !.calendarEntries = EmptyMap,
            !.calendarDateExceptions = EmptyMap]

\* routes.forEach(route => { if (route && route.route_id) ... })
RECURSIVE setRoutes(_, _)
setRoutes(m, rows) ==
  IF rows = <<>> THEN m
  ELSE LET route == Head(rows) IN
       setRoutes(IF route # NullRoute /\ Truthy(route.route_id)
                 THEN MapSet(m, route.route_id, route) ELSE m,
                 Tail(rows))

\* stops.forEach(stop => { if (stop && stop.stop_id) ... })
RECURSIVE setStops_abort(_, _)
setStops_abort(m, rows) ==
  IF rows = <<>> THEN m
  ELSE LET stop == Head(rows) IN
       IF stop # NullStop /\ Truthy(stop.stop_id)
       THEN setStops_abort(MapSet(m, stop.stop_id, stop), Tail(rows))
       ELSE m

RECURSIVE setStops(_, _)
setStops(m, rows) ==
  IF rows = <<>> THEN m
  ELSE LET stop == Head(rows) IN
       setStops(IF stop # NullStop /\ Truthy(stop.stop_id)
                THEN MapSet(m, stop.stop_id, stop) ELSE m,
                Tail(rows))

\* Object.entries(stopTimes).forEach(([tripId, times]) => ...), and the same
\* loop over shapes: entries is the object's [key, value] list.
RECURSIVE setArrays(_, _)
setArrays(m, entries) ==
  IF entries = <<>> THEN m
  ELSE LET e == Head(entries) IN
       setArrays(IF Truthy(e.k) /\ IsArray(e.v) THEN MapSet(m, e.k, e.v) ELSE m,
                 Tail(entries))

\* trips.forEach: t is the pair of maps [trips, tripsByNumber].
RECURSIVE setTrips(_, _)
setTrips(t, rows) ==
  IF rows = <<>> THEN t
  ELSE LET trip == Head(rows) IN
       IF trip # NullTrip /\ Truthy(trip.trip_id)
       THEN LET byId == MapSet(t.trips, trip.trip_id, trip)
                existing == IF MapHas(t.tripsByNumber, trip.trip_short_name)
                            THEN MapGet(t.tripsByNumber, trip.trip_short_name)
                            ELSE <<>>
                byNumber == IF Truthy(trip.trip_short_name)
                            THEN MapSet(t.tripsByNumber, trip.trip_short_name,
                                        Append(existing, trip))
                            ELSE t.tripsByNumber
            IN setTrips([trips |-> byId, tripsByNumber |-> byNumber], Tail(rows))
       ELSE setTrips(t, Tail(rows))

\* calendar.forEach(entry => { if (entry && entry.service_id) ... })
RECURSIVE setCalendar(_, _)
setCalendar(m, rows) ==
  IF rows = <<>> THEN m
  ELSE LET entry == Head(rows) IN
       setCalendar(IF entry # NullCalendarEntry /\ Truthy(entry.service_id)
                   THEN MapSet(m, entry.service_id, entry) ELSE m,
                   Tail(rows))

\* calendarDates.forEach: service_id -> (date -> exception_type)
RECURSIVE setCalendarDates(_, _)
setCalendarDates(m, rows) ==
  IF rows = <<>> THEN m
  ELSE LET exception == Head(rows) IN
       IF exception # NullException /\ Truthy(exception.service_id)
       THEN LET dateMap == IF MapHas(m, exception.service_id)
                           THEN MapGet(m, exception.service_id)
                           ELSE EmptyMap
            IN setCalendarDates(
                 MapSet(m, exception.service_id,
                        MapSet(dateMap, exception.date, exception.exception_type)),
                 Tail(rows))
       ELSE setCalendarDates(m, Tail(rows))

\* The seven loops, each adding to the map the store holds at that point.
populate(s, a) ==
  LET t == setTrips([trips |-> s.trips, tripsByNumber |-> s.tripsByNumber],
                    a.trips)
  IN [s EXCEPT !.routes = setRoutes(s.routes, a.routes),
               !.stops = setStops(s.stops, a.stops),
               !.stopTimes = setArrays(s.stopTimes, a.stopTimes),
               !.shapes = setArrays(s.shapes, a.shapes),
               !.trips = t.trips,
               !.tripsByNumber = t.tripsByNumber,
               !.calendarEntries = setCalendar(s.calendarEntries, a.calendar),
               !.calendarDateExceptions =
                  setCalendarDates(s.calendarDateExceptions, a.calendarDates)]

\* this.hasCalendarData = ...; this._isLoaded = ...
setFlags_sticky(s) ==
  [s EXCEPT !.hasCalendarData =
               MapSize(s.calendarEntries) > 0
               \/ MapSize(s.calendarDateExceptions) > 0,
            !._isLoaded = s._isLoaded
                          \/ (MapSize(s.routes) > 0 /\ MapSize(s.stops) > 0)]

setFlags_either(s) ==
  [s EXCEPT !.hasCalendarData =
               MapSize(s.calendarEntries) > 0
               \/ MapSize(s.calendarDateExceptions) > 0,
            !._isLoaded = MapSize(s.routes) > 0 \/ MapSize(s.stops) > 0]

setFlags(s) ==
  [s EXCEPT !.hasCalendarData =
               MapSize(s.calendarEntries) > 0
               \/ MapSize(s.calendarDateExceptions) > 0,
            !._isLoaded = MapSize(s.routes) > 0 /\ MapSize(s.stops) > 0]

\* The store a fresh parser holds after overrideData(a).
BuildStore(a) == setFlags(populate(clearMaps(NewParser), a))

-----------------------------------------------------------------------------
(* Date: a calendar date [y, m, d] with m in 1..12 *)

\* Date.prototype.getFullYear / getMonth (0-based) / getDate
getFullYear(date) == date.y
getMonth(date) == date.m - 1
getDate(date) == date.d

\* Date.prototype.getDay: 0 = Sunday ... 6 = Saturday (Gregorian calendar).
getDay(date) ==
  LET t == <<0, 3, 2, 5, 0, 3, 5, 1, 4, 6, 2, 4>>
      y == IF date.m < 3 THEN date.y - 1 ELSE date.y
  IN (y + (y \div 4) - (y \div 100) + (y \div 400) + t[date.m] + date.d) % 7

IsLeap(y) == (y % 4 = 0 /\ y % 100 # 0) \/ y % 400 = 0

DaysInMonth(y, m) ==
  IF m = 2 THEN (IF IsLeap(y) THEN 29 ELSE 28)
  ELSE IF m \in {4, 6, 9, 11} THEN 30 ELSE 31

\* The day after date.
NextDay(date) ==
  IF date.d < DaysInMonth(date.y, date.m) THEN [date EXCEPT !.d = date.d + 1]
  ELSE IF date.m < 12 THEN [y |-> date.y, m |-> date.m + 1, d |-> 1]
  ELSE [y |-> date.y + 1, m |-> 1, d |-> 1]

\* year * 10000 + month * 100 + day
DateInt(date) ==
  LET year == getFullYear(date)
      month == getMonth(date) + 1
      day == getDate(date)
  IN year * 10000 + month * 100 + day

-----------------------------------------------------------------------------
(* Lookups *)

\* this.routes.get(routeId)?.route_long_name || 'Unknown Route'
getRouteName(s, routeId) ==
  IF MapHas(s.routes, routeId) /\ Truthy(MapGet(s.routes, routeId).route_long_name)
  THEN MapGet(s.routes, routeId).route_long_name
  ELSE "Unknown Route"

\* this.stops.get(stopId)?.stop_name || stopId
getStopName_blank(s, stopId) ==
  IF MapHas(s.stops, stopId) /\ Truthy(MapGet(s.stops, stopId).stop_name)
  THEN MapGet(s.stops, stopId).stop_name
  ELSE ""

getStopName(s, stopId) ==
  IF MapHas(s.stops, stopId) /\ Truthy(MapGet(s.stops, stopId).stop_name)
  THEN MapGet(s.stops, stopId).stop_name
  ELSE stopId

\* { ...time, stop_name: this.getStopName(time.stop_id), stop_code: time.stop_id }
\* The time of day of a time string: hours 24 to 29 become 00 to 05.
Clock(x) ==
  IF Len(x) = 8 /\ SubSeq(x, 1, 1) = "2" /\ SubSeq(x, 2, 2) \in {"4", "5", "6", "7", "8", "9"}
  THEN "0" \o (CASE SubSeq(x, 2, 2) = "4" -> "0" [] SubSeq(x, 2, 2) = "5" -> "1"
                 [] SubSeq(x, 2, 2) = "6" -> "2" [] SubSeq(x, 2, 2) = "7" -> "3"
                 [] SubSeq(x, 2, 2) = "8" -> "4" [] SubSeq(x, 2, 2) = "9" -> "5")
           \o SubSeq(x, 3, 8)
  ELSE x

Enriched_clock(s, time) ==
  [stop_id |-> time.stop_id, stop_sequence |-> time.stop_sequence,
   arrival_time |-> Clock(time.arrival_time),
   departure_time |-> Clock(time.departure_time),
   stop_name |-> getStopName(s, time.stop_id), stop_code |-> time.stop_id]

Enriched(s, time) ==
  [stop_id |-> time.stop_id, stop_sequence |-> time.stop_sequence,
   arrival_time |-> time.arrival_time, departure_time |-> time.departure_time,
   stop_name |-> getStopName(s, time.stop_id), stop_code |-> time.stop_id]

-----------------------------------------------------------------------------
(* isServiceActiveOnDate *)

\* switch (dayOfWeek) { case 0: return entry.sunday; ... default: return false }
WeekdayFlag_shifted(entry, dayOfWeek) ==
  CASE dayOfWeek = 0 -> entry.monday
    [] dayOfWeek = 1 -> entry.tuesday
    [] dayOfWeek = 2 -> entry.wednesday
    [] dayOfWeek = 3 -> entry.thursday
    [] dayOfWeek = 4 -> entry.friday
    [] dayOfWeek = 5 -> entry.saturday
    [] dayOfWeek = 6 -> entry.sunday
    [] OTHER -> FALSE

WeekdayFlag(entry, dayOfWeek) ==
  CASE dayOfWeek = 0 -> entry.sunday
    [] dayOfWeek = 1 -> entry.monday
    [] dayOfWeek = 2 -> entry.tuesday
    [] dayOfWeek = 3 -> entry.wednesday
    [] dayOfWeek = 4 -> entry.thursday
    [] dayOfWeek = 5 -> entry.friday
    [] dayOfWeek = 6 -> entry.saturday
    [] OTHER -> FALSE

\* The base calendar schedule: entry lookup, date range, day of week.
BaseSchedule(s, serviceId, date) ==
  IF ~MapHas(s.calendarEntries, serviceId) THEN FALSE
  ELSE LET entry == MapGet(s.calendarEntries, serviceId)
           dateInt == DateInt(date)
       IN IF dateInt < entry.start_date \/ dateInt > entry.end_date THEN FALSE
          ELSE WeekdayFlag(entry, getDay(date))

\* exceptions.get(dateInt), 0 standing for undefined (no exception stored).
ExceptionType(s, serviceId, dateInt) ==
  IF MapHas(s.calendarDateExceptions, serviceId)
     /\ MapHas(MapGet(s.calendarDateExceptions, serviceId), dateInt)
  THEN MapGet(MapGet(s.calendarDateExceptions, serviceId), dateInt)
  ELSE 0

isServiceActiveOnDate_baseFirst(s, serviceId, date) ==
  IF ~s.hasCalendarData THEN TRUE
  ELSE IF ~Truthy(serviceId) THEN TRUE
  ELSE IF MapHas(s.calendarEntries, serviceId)
       THEN BaseSchedule(s, serviceId, date)
       ELSE ExceptionType(s, serviceId, DateInt(date)) = 1

isServiceActiveOnDate_noFallback(s, serviceId, date) ==
  IF ~Truthy(serviceId) THEN TRUE
  ELSE LET exceptionType == ExceptionType(s, serviceId, DateInt(date))
       IN IF exceptionType = 1 THEN TRUE
          ELSE IF exceptionType = 2 THEN FALSE
          ELSE BaseSchedule(s, serviceId, date)

isServiceActiveOnDate(s, serviceId, date) ==
  IF ~s.hasCalendarData THEN TRUE
  ELSE IF ~Truthy(serviceId) THEN TRUE
  ELSE LET exceptionType == ExceptionType(s, serviceId, DateInt(date))
       IN IF exceptionType = 1 THEN TRUE
          ELSE IF exceptionType = 2 THEN FALSE
          ELSE BaseSchedule(s, serviceId, date)

-----------------------------------------------------------------------------
(* findTripsWithStops *)

\* The characters of a time string in collation order (punctuation first).
Collation == ":0123456789"

RECURSIVE CharRankFrom(_, _)
CharRankFrom(c, i) ==
  IF i > Len(Collation) THEN Len(Collation) + 1
  ELSE IF SubSeq(Collation, i, i) = c THEN i
  ELSE CharRankFrom(c, i + 1)

CharRank(c) == CharRankFrom(c, 1)

\* String.prototype.localeCompare on time strings: -1, 0 or 1.
RECURSIVE LocaleCompareFrom(_, _, _)
LocaleCompareFrom(a, b, i) ==
  IF i > Len(a) /\ i > Len(b) THEN 0
  ELSE IF i > Len(a) THEN -1
  ELSE IF i > Len(b) THEN 1
  ELSE LET ra == CharRank(SubSeq(a, i, i))
           rb == CharRank(SubSeq(b, i, i))
       IN IF ra < rb THEN -1
          ELSE IF ra > rb THEN 1
          ELSE LocaleCompareFrom(a, b, i + 1)

localeCompare(a, b) == LocaleCompareFrom(a, b, 1)

\* results.sort((a, b) => a.fromStop.departure_time.localeCompare(...)):
\* Array.prototype.sort is stable.
\* The comparator on the times of day.
RECURSIVE InsertByDeparture_clock(_, _)
InsertByDeparture_clock(sorted, r) ==
  IF sorted = <<>> THEN <<r>>
  ELSE IF localeCompare(Clock(Head(sorted).fromStop.departure_time),
                        Clock(r.fromStop.departure_time)) <= 0
       THEN <<Head(sorted)>> \o InsertByDeparture_clock(Tail(sorted), r)
       ELSE <<r>> \o sorted

RECURSIVE InsertByDeparture(_, _)
InsertByDeparture(sorted, r) ==
  IF sorted = <<>> THEN <<r>>
  ELSE IF localeCompare(Head(sorted).fromStop.departure_time,
                        r.fromStop.departure_time) <= 0
       THEN <<Head(sorted)>> \o InsertByDeparture(Tail(sorted), r)
       ELSE <<r>> \o sorted

RECURSIVE SortByDeparture(_)
SortByDeparture(results) ==
  IF results = <<>> THEN <<>>
  ELSE InsertByDeparture(SortByDeparture(SubSeq(results, 1, Len(results) - 1)),
                         results[Len(results)])

\* The date filter if a trip without a Trip record counted as not running.
FilteredByDate_noRecord(s, tripId, date) ==
  /\ date # <<>>
  /\ \/ ~MapHas(s.trips, tripId)
     \/ ~isServiceActiveOnDate(s, MapGet(s.trips, tripId).service_id, date[1])

\* if (date) { const trip = this.trips.get(tripId);
\*             if (trip && !this.isServiceActiveOnDate(trip.service_id, date)) return; }
\* date is <<>> (no date given) or <<d>>.
FilteredByDate_never(s, tripId, date) == FALSE

FilteredByDate(s, tripId, date) ==
  /\ date # <<>>
  /\ MapHas(s.trips, tripId)
  /\ ~isServiceActiveOnDate(s, MapGet(s.trips, tripId).service_id, date[1])

\* The body of this.stopTimes.forEach for one trip: <<>> or the one match.
MatchTrip(s, tripId, times, fromStopId, toStopId, date) ==
  IF FilteredByDate(s, tripId, date) THEN <<>>
  ELSE LET fromIdx == findIndex(times, fromStopId)
           toIdx == findIndex(times, toStopId)
       IN IF fromIdx # -1 /\ toIdx # -1 /\ fromIdx < toIdx
          THEN LET fromStop == times[fromIdx + 1]
                   toStop == times[toIdx + 1]
                   intermediateStops == slice(times, fromIdx + 1, toIdx)
               IN <<[tripId |-> tripId,
                     fromStop |-> Enriched(s, fromStop),
                     toStop |-> Enriched(s, toStop),
                     intermediateStops |->
                       [i \in 1..Len(intermediateStops) |->
                          Enriched(s, intermediateStops[i])]]>>
          ELSE <<>>

\* this.stopTimes.forEach((times, tripId) => ...) from entry i on.
RECURSIVE MatchesFrom(_, _, _, _, _)
MatchesFrom(s, i, fromStopId, toStopId, date) ==
  IF i > MapSize(s.stopTimes) THEN <<>>
  ELSE MatchTrip(s, s.stopTimes[i].k, s.stopTimes[i].v, fromStopId, toStopId, date)
       \o MatchesFrom(s, i + 1, fromStopId, toStopId, date)

\* const key = `${trainNumber}-${result.fromStop.departure_time}`
DedupKey(s, result) ==
  LET trainNumber ==
        IF MapHas(s.trips, result.tripId)
           /\ Truthy(MapGet(s.trips, result.tripId).trip_short_name)
        THEN MapGet(s.trips, result.tripId).trip_short_name
        ELSE result.tripId
  IN trainNumber \o "-" \o result.fromStop.departure_time

\* results.filter with the seen set.
RECURSIVE DedupFrom(_, _, _)
DedupFrom(s, results, seen) ==
  IF results = <<>> THEN <<>>
  ELSE LET key == DedupKey(s, Head(results)) IN
       IF key \in seen THEN DedupFrom(s, Tail(results), seen)
       ELSE <<Head(results)>> \o DedupFrom(s, Tail(results), seen \cup {key})

findTripsWithStops(s, fromStopId, toStopId, date) ==
  DedupFrom(s, SortByDeparture(MatchesFrom(s, 1, fromStopId, toStopId, date)), {})

-----------------------------------------------------------------------------
(* getStopTimesForTrip, getShape, getTripsByNumber *)

\* .sort((a, b) => a.stop_sequence - b.stop_sequence), a stable sort.
RECURSIVE InsertBySequence(_, _)
InsertBySequence(sorted, x) ==
  IF sorted = <<>> THEN <<x>>
  ELSE IF Head(sorted).stop_sequence - x.stop_sequence <= 0
       THEN <<Head(sorted)>> \o InsertBySequence(Tail(sorted), x)
       ELSE <<x>> \o sorted

SortBySequence_asLoaded(times) == times

RECURSIVE SortBySequence(_)
SortBySequence(times) ==
  IF times = <<>> THEN <<>>
  ELSE InsertBySequence(SortBySequence(SubSeq(times, 1, Len(times) - 1)),
                        times[Len(times)])

\* A new array of new objects: (this.stopTimes.get(tripId) || []).map(...).sort(...)
getStopTimesForTrip(s, tripId) ==
  LET times == IF MapHas(s.stopTimes, tripId) THEN MapGet(s.stopTimes, tripId)
               ELSE <<>>
  IN SortBySequence([i \in 1..Len(times) |-> Enriched(s, times[i])])

\* this.shapes.get(shapeId): the stored array itself (<<>> stands for undefined).
getShape(s, shapeId) ==
  IF MapHas(s.shapes, shapeId) THEN MapGet(s.shapes, shapeId) ELSE <<>>

\* this.tripsByNumber.get(trainNumber) || []: the stored array itself, or a new one.
getTripsByNumber(s, trainNumber) ==
  IF MapHas(s.tripsByNumber, trainNumber) THEN MapGet(s.tripsByNumber, trainNumber)
  ELSE <<>>

-----------------------------------------------------------------------------
(* The snapshots and query arguments the callers supply *)

\* Rows per generated routes, stops or trips array.
MaxRows == 2
\* Stop-times per generated stop-time list.
MaxStopTimes == 3
\* Rows per generated calendarDates array.
MaxExceptions == 2
\* Consecutive calendar dates queried, from Day0 on.
NumDays == 7

\* All sequences over S of length at most n, and those without a repeated row.
RowSeqs(S, n) == UNION {[1..k -> S] : k \in 0..n}

InjSeqs(S, n) ==
  {q \in RowSeqs(S, n) : \A i, j \in 1..Len(q) : i # j => q[i] # q[j]}

\* Monday 26 February 2024: the window crosses a leap day and a month end.
Day0 == [y |-> 2024, m |-> 2, d |-> 26]

RECURSIVE Day(_)
Day(n) == IF n = 0 THEN Day0 ELSE NextDay(Day(n - 1))

Dates == {Day(n) : n \in 0..(NumDays - 1)}

ServiceIds == {"", "S1", "S2"}
StopIds == {"A", "B", "C"}
TripIds == {"T1", "T2", "T3"}
ShapeIds == {"sh1"}
TrainNumbers == {"1", "2"}

RouteRows ==
  {Route("R1", "Cardinal", ""), Route("R2", "Acela", "AX"),
   Route("", "Ghost", ""), NullRoute}

StopRows ==
  {Stop("A", "Union Station"), Stop("B", "Central Station"), Stop("", "Nowhere")}

TripRows ==
  {Trip("T1", "R1", "1", "North", "S1"), Trip("T2", "R1", "1", "North", "S2"),
   Trip("T1", "R2", "2", "South", "S2"), Trip("T2", "R1", "", "North", "S1"),
   Trip("", "R1", "1", "North", "S1"), NullTrip}

\* C is reached after midnight of the service day; A is visited twice.
StopTimeRows ==
  {StopTime("A", 1, "08:00:00", "08:00:00"), StopTime("B", 2, "09:30:00", "09:35:00"),
   StopTime("C", 3, "25:10:00", "25:15:00"), StopTime("A", 3, "10:00:00", "10:05:00")}

AllDays == <<TRUE, TRUE, TRUE, TRUE, TRUE, TRUE, TRUE>>
NoDays == <<FALSE, FALSE, FALSE, FALSE, FALSE, FALSE, FALSE>>
OnlyDay(k) == [i \in 1..7 |-> i = k + 1]

FirstDate == DateInt(Day(0))
LastDate == DateInt(Day(NumDays - 1))

\* One entry of S1 per weekday, valid over the whole window.
CalendarRowsWeek ==
  {CalendarEntry("S1", FirstDate, LastDate, OnlyDay(k)) : k \in 0..6}

\* Entries of S1 and S2 whose range is a part of the window.
CalendarRowsRange ==
  {CalendarEntry("S1", DateInt(Day(1)), DateInt(Day(3)), AllDays),
   CalendarEntry("S1", DateInt(Day(4)), DateInt(Day(5)), AllDays),
   CalendarEntry("S2", DateInt(Day(2)), DateInt(Day(2)), AllDays)}

\* An entry that is never active, and rows that are not ingested.
CalendarRowsOdd ==
  {CalendarEntry("S1", FirstDate, LastDate, NoDays),
   CalendarEntry("", FirstDate, LastDate, AllDays),
   NullCalendarEntry}

\* exception_type 1 = added, 2 = removed.
ExceptionRows ==
  {CalendarDateException("S1", DateInt(Day(2)), 1),
   CalendarDateException("S1", DateInt(Day(2)), 2),
   CalendarDateException("S2", DateInt(Day(2)), 2),
   CalendarDateException("", DateInt(Day(2)), 1)}

DRoutes == <<Route("R1", "Cardinal", "")>>
DStops ==
  <<Stop("A", "Union Station"), Stop("B", "Central Station"), Stop("C", "Penn Station")>>
DTrips ==
  <<Trip("T1", "R1", "1", "North", "S1"), Trip("T2", "R1", "1", "North", "S2")>>
DTimes ==
  <<StopTime("A", 1, "08:00:00", "08:00:00"), StopTime("B", 2, "09:30:00", "09:35:00"),
    StopTime("C", 3, "25:10:00", "25:15:00")>>
DStopTimes == <<[k |-> "T1", v |-> DTimes]>>
DShapes ==
  <<[k |-> "sh1", v |-> <<[shape_pt_lat |-> 40, shape_pt_lon |-> -73],
                          [shape_pt_lat |-> 41, shape_pt_lon |-> -72]>>],
    [k |-> "", v |-> <<>>]>>
DCalendar == <<CalendarEntry("S1", DateInt(Day(1)), DateInt(Day(3)), AllDays)>>

\* Dirty route and stop rows; the optional arguments given or omitted.
RouteSnapshots ==
  {Args(r, DStops, DStopTimes, <<>>, <<>>, <<>>, <<>>) : r \in RowSeqs(RouteRows, MaxRows)}
  \cup {Args(r, DStops, DStopTimes, DShapes, DTrips, DCalendar, <<>>) :
          r \in RowSeqs(RouteRows, MaxRows)}

StopSnapshots ==
  {Args(DRoutes, st, DStopTimes, <<>>, <<>>, <<>>, <<>>) : st \in RowSeqs(StopRows, MaxRows)}
  \cup {Args(DRoutes, st, DStopTimes, DShapes, DTrips, DCalendar, <<>>) :
          st \in RowSeqs(StopRows, MaxRows)}

TripSnapshots ==
  {Args(DRoutes, DStops, DStopTimes, DShapes, tr, <<>>, <<>>) :
     tr \in RowSeqs(TripRows, MaxRows)}

CalendarSnapshots ==
  {Args(DRoutes, DStops, DStopTimes, <<>>, DTrips, <<e>>, x) :
     e \in CalendarRowsWeek,
     x \in {<<>>, <<CalendarDateException("S1", DateInt(Day(2)), 1)>>,
            <<CalendarDateException("S1", DateInt(Day(2)), 2)>>}}
  \cup {Args(DRoutes, DStops, DStopTimes, <<>>, DTrips, c, x) :
          c \in {<<>>} \cup {<<e>> : e \in CalendarRowsRange},
          x \in RowSeqs(ExceptionRows, MaxExceptions)}
  \cup {Args(DRoutes, DStops, DStopTimes, <<>>, DTrips, <<e>>, x) :
          e \in CalendarRowsOdd,
          x \in {<<>>, <<CalendarDateException("", DateInt(Day(2)), 1), NullException>>,
                 <<CalendarDateException("S1", DateInt(Day(2)), 2)>>}}

\* Stop-time lists of T1 in every order of their rows.
StopTimeSnapshots ==
  {Args(DRoutes, DStops,
        <<[k |-> "T1", v |-> l],
          [k |-> "T2", v |-> <<StopTime("A", 1, "08:00:00", "08:00:00"),
                                StopTime("C", 2, "25:10:00", "25:15:00")>>]>>,
        DShapes, DTrips, DCalendar, <<>>) :
     l \in InjSeqs(StopTimeRows, MaxStopTimes)}
  \cup {Args(DRoutes, DStops, <<[k |-> key, v |-> DTimes]>>, DShapes, DTrips, <<>>, <<>>) :
          key \in {"", "T3"}}

Snapshots ==
  {NoArgs} \cup RouteSnapshots \cup StopSnapshots \cup TripSnapshots
  \cup CalendarSnapshots \cup StopTimeSnapshots

\* The optional date argument: none, or a date of the window.
OptDates == {<<>>} \cup {<<Day(n)>> : n \in {2, 4}}

-----------------------------------------------------------------------------
(* TrainStorageService (src/unnamed/part_005): the saved-train list and the  *)
(* trip history, each one item of AsyncStorage holding the whole list as     *)
(* JSON.  Every method awaits getItem and then setItem; other callbacks run  *)
(* while it waits.                                                           *)

\* Calls of TrainStorageService that can be in flight at once.
MaxCalls == 2

CallIds == 1..MaxCalls

\* What getItem resolves to for a key never set; an item that is set is <<list>>,
\* the JSON text of the list.
Null == <<>>

\* No item has been set.
NoItems == [savedTrainRefs |-> Null, tripHistory |-> Null]

\* A call slot not in use; result is what the call returned once pc is "done".
NoCall == [op |-> "", in |-> <<>>, pc |-> "new", local |-> <<>>, result |-> FALSE]

\* SavedTrainRef: tripId with the optional fromCode, toCode, travelDate.
SavedTrainRef(tripId, fromCode, toCode, travelDate) ==
  [tripId |-> tripId, fromCode |-> fromCode, toCode |-> toCode, travelDate |-> travelDate]

\* CompletedTrip, the fields addToHistory compares.
CompletedTrip(tripId, fromCode, toCode, date) ==
  [tripId |-> tripId, fromCode |-> fromCode, toCode |-> toCode, date |-> date]

\* o.f: undefined when the object has no such property.
Prop(o, f) == IF f \in DOMAIN o THEN o[f] ELSE Undef

\* JSON.stringify of an array of objects: a property whose value is undefined
\* is left out.
stringify(list) ==
  <<[i \in 1..Len(list) |->
      [f \in {g \in DOMAIN list[i] : list[i][g] # Undef} |-> list[i][f]]]>>

\* data ? JSON.parse(data) : []
parse(data) == IF data = Null THEN <<>> ELSE data[1]

\* refs.some(r => r.tripId === ref.tripId && r.fromCode === ref.fromCode && ...)
refExists(refs, ref) ==
  \E i \in 1..Len(refs) :
     /\ Prop(refs[i], "tripId") = Prop(ref, "tripId")
     /\ Prop(refs[i], "fromCode") = Prop(ref, "fromCode")
     /\ Prop(refs[i], "toCode") = Prop(ref, "toCode")
     /\ Prop(refs[i], "travelDate") = Prop(ref, "travelDate")

\* history.some(h => h.tripId === entry.tripId && ... && h.date === entry.date)
entryExists(history, entry) ==
  \E i \in 1..Len(history) :
     /\ Prop(history[i], "tripId") = Prop(entry, "tripId")
     /\ Prop(history[i], "fromCode") = Prop(entry, "fromCode")
     /\ Prop(history[i], "toCode") = Prop(entry, "toCode")
     /\ Prop(history[i], "date") = Prop(entry, "date")

\* The filter of deleteTrainByTripId: r stays in the list.
keptByDelete(r, tripId, fromCode, toCode) ==
  IF Prop(r, "tripId") # tripId THEN TRUE
  ELSE IF fromCode # Undef \/ toCode # Undef
  THEN Prop(r, "fromCode") # fromCode \/ Prop(r, "toCode") # toCode
  ELSE FALSE

-----------------------------------------------------------------------------
(* Callbacks *)

Init ==
  /\ store = NewParser
  /\ pc = "idle"
  /\ args = NoArgs
  /\ ret = <<>>
  /\ gtfsLoaded = isLoaded(NewParser)
  /\ held = {}
  /\ AsyncStorage = NoItems
  /\ calls = [c \in CallIds |-> NoCall]

\* overrideData is a synchronous method: from its first statement to its last
\* no other callback runs.
InLoad_async == FALSE

InLoad == pc # "idle"

\* A callback can start when the stack is empty.
CanStart == ~InLoad /\ ret = <<>>

\* The arrays of the arguments that the store now holds by reference.
StoredArrays(s) ==
  {[kind |-> "stopTimes", key |-> s.stopTimes[i].k] : i \in 1..MapSize(s.stopTimes)}
  \cup {[kind |-> "shapes", key |-> s.shapes[i].k] : i \in 1..MapSize(s.shapes)}

\* overrideData(a), entry and the eight clear() calls.
overrideData(a) ==
  /\ CanStart
  /\ store' = clearMaps(store)
  /\ args' = a
  /\ pc' = "populate"
  /\ held' = {}
  /\ UNCHANGED <<disk, ret, gtfsLoaded>>

\* overrideData, the seven forEach loops.
overrideData_populate ==
  /\ pc = "populate"
  /\ store' = populate(store, args)
  /\ held' = StoredArrays(store')
  /\ pc' = "flags"
  /\ UNCHANGED <<disk, args, ret, gtfsLoaded>>

\* overrideData, the two flag assignments and the return.
overrideData_flags ==
  /\ pc = "flags"
  /\ store' = setFlags(store)
  /\ pc' = "idle"
  /\ UNCHANGED <<disk, args, ret, gtfsLoaded, held>>

\* The interval callback of useShapes, which exists while gtfsLoaded is false:
\* if (gtfsParser.isLoaded) setGtfsLoaded(true).  seen is the store as that
\* callback could read it through the getters.
PollLoaded ==
  /\ CanStart
  /\ ~gtfsLoaded
  /\ ret' = <<[op |-> "isLoaded", in |-> <<>>, val |-> isLoaded(store),
               seen |-> store]>>
  /\ gtfsLoaded' = isLoaded(store)
  /\ UNCHANGED <<disk, store, pc, args, held>>

\* A callback that calls isServiceActiveOnDate(serviceId, date).
CallIsServiceActiveOnDate(serviceId, date) ==
  /\ CanStart
  /\ ret' = <<[op |-> "isServiceActiveOnDate", in |-> <<serviceId, date>>,
               val |-> isServiceActiveOnDate(store, serviceId, date)]>>
  /\ UNCHANGED <<disk, store, pc, args, gtfsLoaded, held>>

\* A callback that calls findTripsWithStops(fromStopId, toStopId, date?).
CallFindTripsWithStops(fromStopId, toStopId, date) ==
  /\ CanStart
  /\ ret' = <<[op |-> "findTripsWithStops", in |-> <<fromStopId, toStopId, date>>,
               val |-> findTripsWithStops(store, fromStopId, toStopId, date)]>>
  /\ UNCHANGED <<disk, store, pc, args, gtfsLoaded, held>>

\* The reader callback ends.
Return ==
  /\ ret # <<>>
  /\ ret' = <<>>
  /\ UNCHANGED <<disk, store, pc, args, gtfsLoaded, held>>

Next ==
  \/ \E a \in Snapshots : overrideData(a)
  \/ overrideData_populate
  \/ overrideData_flags
  \/ PollLoaded
  \/ \E serviceId \in ServiceIds, date \in Dates :
       CallIsServiceActiveOnDate(serviceId, date)
  \/ \E fromStopId \in StopIds, toStopId \in StopIds, date \in OptDates :
       CallFindTripsWithStops(fromStopId, toStopId, date)
  \/ Return

Spec == Init /\ [][Next]_vars

-----------------------------------------------------------------------------
(* What the snapshot of the latest call says, read off the rows themselves *)

\* The rows of an input array that are objects with a non-empty key.
ValidRoute(r) == r # NullRoute /\ Truthy(r.route_id)
ValidStop(r) == r # NullStop /\ Truthy(r.stop_id)
ValidTrip(r) == r # NullTrip /\ Truthy(r.trip_id)
ValidEntry(r) == r # NullCalendarEntry /\ Truthy(r.service_id)
ValidException(r) == r # NullException /\ Truthy(r.service_id)

\* The index of the last row of rows that satisfies P, 0 if there is none.
LastIndex(rows, P(_)) ==
  IF \E i \in 1..Len(rows) : P(rows[i])
  THEN CHOOSE i \in 1..Len(rows) :
         P(rows[i]) /\ \A j \in (i + 1)..Len(rows) : ~P(rows[j])
  ELSE 0

\* The exception type the snapshot gives (serviceId, dateInt): 0 if none.
SnapshotException(a, serviceId, dateInt) ==
  LET i == LastIndex(a.calendarDates,
                     LAMBDA r : ValidException(r) /\ r.service_id = serviceId
                                /\ r.date = dateInt)
  IN IF i = 0 THEN 0 ELSE a.calendarDates[i].exception_type

\* The index in a.calendar of the entry the snapshot gives serviceId, 0 if none.
SnapshotEntry(a, serviceId) ==
  LastIndex(a.calendar, LAMBDA r : ValidEntry(r) /\ r.service_id = serviceId)

\* The number n of the window's date: date = Day(n).
DayNumber(date) == CHOOSE n \in 0..(NumDays - 1) : Day(n) = date

\* Day0 is a Monday, so Day(n) falls on weekday (n + 1) mod 7, Sunday being 0.
Weekday(date) == (DayNumber(date) + 1) % 7

\* The entry's flag of weekday w, by the field order sunday .. saturday.
Flags(entry) ==
  <<entry.sunday, entry.monday, entry.tuesday, entry.wednesday, entry.thursday,
    entry.friday, entry.saturday>>

\* The reader callback that is running got r back.
Returned(op) == ret # <<>> /\ ret[1].op = op

\* What the query of r returns on store s.
Eval(r, s) ==
  CASE r.op = "isLoaded" -> isLoaded(s)
    [] r.op = "isServiceActiveOnDate" -> isServiceActiveOnDate(s, r.in[1], r.in[2])
    [] r.op = "findTripsWithStops" -> findTripsWithStops(s, r.in[1], r.in[2], r.in[3])

-----------------------------------------------------------------------------
(* Properties *)

\* C1: a load is atomic for readers.  Whatever a reader callback got back, from
\* isLoaded, isServiceActiveOnDate or findTripsWithStops, is what the complete
\* store of the latest overrideData call returns, and the store such a
\* callback can read is that complete store: never one in which some indices
\* are rebuilt and others are empty or stale.
LoadAtomicForReaders ==
  ret # <<>> =>
    /\ ret[1].val = Eval(ret[1], BuildStore(args))
    /\ ret[1].op = "isLoaded" => ret[1].seen = BuildStore(args)

\* A reload is half done: the indices are cleared, the flags are still those
\* of the previous snapshot, and no reader callback is running.
WitnessMidRebuild ==
  /\ pc = "populate"
  /\ store._isLoaded
  /\ store.hasCalendarData
  /\ MapSize(store.routes) = 0
  /\ args.routes # <<>>
  /\ ret = <<>>

\* C2: a reader that reads isLoaded = true reads, in the same callback, route
\* and stop indices that are populated, and a store that is entirely the one of
\* a single snapshot, the latest one.
LoadedFlagDescribesSnapshot ==
  (Returned("isLoaded") /\ ret[1].val) =>
    /\ MapSize(ret[1].seen.routes) > 0
    /\ MapSize(ret[1].seen.stops) > 0
    /\ ret[1].seen = BuildStore(args)

\* A poller is still waiting while a reload that follows a successful load has
\* rebuilt the indices without any route and the flag is still true.
WitnessStaleFlagInReload ==
  /\ pc = "flags"
  /\ store._isLoaded
  /\ MapSize(store.routes) = 0
  /\ ~gtfsLoaded

\* C4: when no load is in progress, isLoaded is true iff the store holds a
\* route and a stop, that is iff the latest snapshot has a route row and a stop
\* row with a non-empty id; it is false before the first load.
LoadedIffRoutesAndStops ==
  pc = "idle" =>
    /\ isLoaded(store) <=> (MapSize(store.routes) > 0 /\ MapSize(store.stops) > 0)
    /\ isLoaded(store) <=>
         /\ \E i \in 1..Len(args.routes) : ValidRoute(args.routes[i])
         /\ \E i \in 1..Len(args.stops) : ValidStop(args.stops[i])
    /\ (args = NoArgs => ~isLoaded(store))

\* The flag is back to false after a poller had read it true: a later snapshot
\* has stop rows, none with an id.
WitnessLoadedThenNot ==
  /\ pc = "idle"
  /\ gtfsLoaded
  /\ ~isLoaded(store)
  /\ args.routes # <<>>
  /\ args.stops # <<>>

\* C5: each load replaces the store wholesale.  When no load is in progress
\* every index and both flags are what a new parser holds after loading the
\* latest snapshot alone.
StoreReplacedWholesale ==
  pc = "idle" => store = BuildStore(args)

\* The previous snapshot had trips and calendar data (its flag is still set)
\* and the snapshot being loaded omits trips, calendar and calendarDates.
WitnessReloadWithoutOptionals ==
  /\ pc = "populate"
  /\ store.hasCalendarData
  /\ args.trips = <<>>
  /\ args.calendar = <<>>
  /\ args.calendarDates = <<>>
  /\ args.routes # <<>>

\* The rows of the snapshot with their dirty rows removed.
Cleaned(a) ==
  [routes |-> SelectSeq(a.routes, ValidRoute),
   stops |-> SelectSeq(a.stops, ValidStop),
   stopTimes |-> SelectSeq(a.stopTimes, LAMBDA e : Truthy(e.k)),
   shapes |-> SelectSeq(a.shapes, LAMBDA e : Truthy(e.k)),
   trips |-> SelectSeq(a.trips, ValidTrip),
   calendar |-> SelectSeq(a.calendar, ValidEntry),
   calendarDates |-> SelectSeq(a.calendarDates, ValidException)]

\* Map m holds, under key, the last of the rows that have this key.
HoldsLastRow(m, rows, Key(_), Valid(_), i) ==
  /\ MapHas(m, Key(rows[i]))
  /\ MapGet(m, Key(rows[i])) =
       rows[LastIndex(rows, LAMBDA r : Valid(r) /\ Key(r) = Key(rows[i]))]

\* No index has an entry under an empty or missing key.
NoDirtyKey(s) ==
  /\ \A i \in 1..MapSize(s.routes) :
       Truthy(s.routes[i].k) /\ ValidRoute(s.routes[i].v)
  /\ \A i \in 1..MapSize(s.stops) :
       Truthy(s.stops[i].k) /\ ValidStop(s.stops[i].v)
  /\ \A i \in 1..MapSize(s.trips) :
       Truthy(s.trips[i].k) /\ ValidTrip(s.trips[i].v)
  /\ \A i \in 1..MapSize(s.tripsByNumber) :
       /\ Truthy(s.tripsByNumber[i].k)
       /\ \A j \in 1..Len(s.tripsByNumber[i].v) : ValidTrip(s.tripsByNumber[i].v[j])
  /\ \A i \in 1..MapSize(s.stopTimes) : Truthy(s.stopTimes[i].k)
  /\ \A i \in 1..MapSize(s.shapes) : Truthy(s.shapes[i].k)
  /\ \A i \in 1..MapSize(s.calendarEntries) :
       Truthy(s.calendarEntries[i].k) /\ ValidEntry(s.calendarEntries[i].v)
  /\ \A i \in 1..MapSize(s.calendarDateExceptions) :
       Truthy(s.calendarDateExceptions[i].k)

\* Every row with a non-empty key is in its index.
ValidRowsKept(s, a) ==
  /\ \A i \in 1..Len(a.routes) :
       ValidRoute(a.routes[i]) =>
         HoldsLastRow(s.routes, a.routes, LAMBDA r : r.route_id, ValidRoute, i)
  /\ \A i \in 1..Len(a.stops) :
       ValidStop(a.stops[i]) =>
         HoldsLastRow(s.stops, a.stops, LAMBDA r : r.stop_id, ValidStop, i)
  /\ \A i \in 1..Len(a.trips) :
       ValidTrip(a.trips[i]) =>
         /\ HoldsLastRow(s.trips, a.trips, LAMBDA r : r.trip_id, ValidTrip, i)
         /\ Truthy(a.trips[i].trip_short_name) =>
              \E j \in 1..Len(getTripsByNumber(s, a.trips[i].trip_short_name)) :
                 getTripsByNumber(s, a.trips[i].trip_short_name)[j] = a.trips[i]
  /\ \A i \in 1..Len(a.stopTimes) :
       Truthy(a.stopTimes[i].k) =>
         /\ MapHas(s.stopTimes, a.stopTimes[i].k)
         /\ MapGet(s.stopTimes, a.stopTimes[i].k) = a.stopTimes[i].v
  /\ \A i \in 1..Len(a.shapes) :
       Truthy(a.shapes[i].k) =>
         /\ MapHas(s.shapes, a.shapes[i].k)
         /\ MapGet(s.shapes, a.shapes[i].k) = a.shapes[i].v
  /\ \A i \in 1..Len(a.calendar) :
       ValidEntry(a.calendar[i]) =>
         HoldsLastRow(s.calendarEntries, a.calendar, LAMBDA r : r.service_id,
                      ValidEntry, i)
  /\ \A i \in 1..Len(a.calendarDates) :
       ValidException(a.calendarDates[i]) =>
         ExceptionType(s, a.calendarDates[i].service_id, a.calendarDates[i].date)
           = SnapshotException(a, a.calendarDates[i].service_id,
                               a.calendarDates[i].date)

\* C6: dirty rows are skipped and cost nothing.  After a load no index has an
\* entry under an empty or missing key, every row of the snapshot with a
\* non-empty key is in its index (the last row of a key, where a key repeats),
\* and the store is the one the snapshot without its dirty rows gives.
DirtyRowsSkippedValidRowsKept ==
  pc = "idle" =>
    /\ NoDirtyKey(store)
    /\ ValidRowsKept(store, args)
    /\ store = BuildStore(Cleaned(args))

\* A stop row without id came before a stop row with one, which is stored.
WitnessValidRowAfterDirtyRow ==
  /\ pc = "idle"
  /\ Len(args.stops) = 2
  /\ ~ValidStop(args.stops[1])
  /\ ValidStop(args.stops[2])
  /\ MapHas(store.stops, args.stops[2].stop_id)

\* YYYY * 10000 + MM * 100 + DD
DateNumber(date) == date.y * 10000 + date.m * 100 + date.d

\* C7: exceptions win.  With calendar data loaded and a non-empty service id,
\* isServiceActiveOnDate returns true when the snapshot's exception for that
\* service and date is "added" (1) and false when it is "removed" (2),
\* whatever the service's calendar entry says and also without any entry.
ExceptionsWinOverWeeklyPattern ==
  (/\ Returned("isServiceActiveOnDate")
   /\ store.hasCalendarData
   /\ Truthy(ret[1].in[1])) =>
    LET x == SnapshotException(args, ret[1].in[1], DateNumber(ret[1].in[2]))
    IN /\ x = 1 => ret[1].val = TRUE
       /\ x = 2 => ret[1].val = FALSE

\* The service was added on a date on which its entry, valid that day, has the
\* weekday's flag off, and the call returned true.
WitnessAddedOnInactiveWeekday ==
  /\ Returned("isServiceActiveOnDate")
  /\ ret[1].val = TRUE
  /\ SnapshotException(args, ret[1].in[1], DateNumber(ret[1].in[2])) = 1
  /\ SnapshotEntry(args, ret[1].in[1]) # 0
  /\ LET e == args.calendar[SnapshotEntry(args, ret[1].in[1])]
     IN /\ e.start_date <= DateNumber(ret[1].in[2])
        /\ DateNumber(ret[1].in[2]) <= e.end_date
        /\ ~Flags(e)[Weekday(ret[1].in[2]) + 1]

\* C8: the base schedule.  With calendar data loaded, a non-empty service id
\* and no exception for the service and date, isServiceActiveOnDate returns
\* true iff the service has a calendar entry, start_date <= date <= end_date
\* with both ends included, and the entry's flag of the date's weekday is set.
BaseScheduleDecides ==
  (/\ Returned("isServiceActiveOnDate")
   /\ store.hasCalendarData
   /\ Truthy(ret[1].in[1])
   /\ SnapshotException(args, ret[1].in[1], DateNumber(ret[1].in[2])) = 0) =>
    LET i == SnapshotEntry(args, ret[1].in[1])
        dateInt == DateNumber(ret[1].in[2])
    IN ret[1].val <=>
         /\ i # 0
         /\ args.calendar[i].start_date <= dateInt
         /\ dateInt <= args.calendar[i].end_date
         /\ Flags(args.calendar[i])[Weekday(ret[1].in[2]) + 1]

\* The call returned true on the last day of the entry's range, a date before
\* the end of the window, with no exception for the service.
WitnessActiveOnEndDate ==
  /\ Returned("isServiceActiveOnDate")
  /\ ret[1].val = TRUE
  /\ store.hasCalendarData
  /\ args.calendarDates = <<>>
  /\ SnapshotEntry(args, ret[1].in[1]) # 0
  /\ args.calendar[SnapshotEntry(args, ret[1].in[1])].end_date
       = DateNumber(ret[1].in[2])
  /\ DateNumber(ret[1].in[2]) < LastDate

\* C9: the calendar fallback.  Without calendar data isServiceActiveOnDate
\* returns true for every service id, the empty one included, and every date;
\* hasCalendarData is true iff the latest snapshot has a calendar entry or an
\* exception with a non-empty service id.
FallbackWithoutCalendarData ==
  /\ (Returned("isServiceActiveOnDate") /\ ~store.hasCalendarData) =>
       ret[1].val = TRUE
  /\ pc = "idle" =>
       (store.hasCalendarData <=>
          \/ \E i \in 1..Len(args.calendar) : ValidEntry(args.calendar[i])
          \/ \E i \in 1..Len(args.calendarDates) :
               ValidException(args.calendarDates[i]))

\* The snapshot's only calendar rows have no service id: no calendar data is
\* loaded, and the call for a service that no row names returned true.
WitnessFallbackAfterDirtyCalendar ==
  /\ Returned("isServiceActiveOnDate")
  /\ ret[1].in[1] = "S2"
  /\ ret[1].val = TRUE
  /\ ~store.hasCalendarData
  /\ args.calendar # <<>>
  /\ args.calendarDates # <<>>

\* C10: directional connectivity.  In every match findTripsWithStops returns,
\* the "to" stop-time has a greater stop_sequence than the "from" stop-time,
\* in whatever order the rows of the trip's list were given to the load.
ToStopFollowsFromStop ==
  Returned("findTripsWithStops") =>
    \A i \in 1..Len(ret[1].val) :
       ret[1].val[i].toStop.stop_sequence > ret[1].val[i].fromStop.stop_sequence

-----------------------------------------------------------------------------
(* A caller that writes to the values it was handed back *)

\* Snapshots for the callers that keep references.
AliasSnapshots ==
  {Args(DRoutes, DStops, <<[k |-> "T1", v |-> l]>>, DShapes, tr, <<>>, <<>>) :
     l \in {<<>>, SubSeq(DTimes, 1, 2), DTimes},
     tr \in {<<>>, DTrips}}

\* The array a reference of the caller denotes.
Deref(s, h) ==
  CASE h.kind = "stopTimes" -> MapGet(s.stopTimes, h.key)
    [] h.kind = "shapes" -> MapGet(s.shapes, h.key)
    [] h.kind = "tripsByNumber" -> MapGet(s.tripsByNumber, h.key)

\* The store after the array of h has become v: the map entry is that array.
Assign(s, h, v) ==
  CASE h.kind = "stopTimes" -> [s EXCEPT !.stopTimes = MapSet(@, h.key, v)]
    [] h.kind = "shapes" -> [s EXCEPT !.shapes = MapSet(@, h.key, v)]
    [] h.kind = "tripsByNumber" ->
         [s EXCEPT !.tripsByNumber = MapSet(@, h.key, v)]

\* The array a method works on when it is not one the store holds.
NewArray == [kind |-> "new", key |-> ""]

\* Array.prototype.map and Array.prototype.slice return a new array, whatever
\* array h they are called on.
copied_same(h) == h

copied(h) == NewArray

\* Array.prototype.sort sorts the array it is called on in place: the store
\* after h.sort(...) has left the rows of h in the order v.
sort(s, h, v) == IF h = NewArray THEN s ELSE Assign(s, h, v)

\* const times = this.stopTimes.get(tripId) || []: the array and its rows.
timesRef(s, tripId) ==
  IF MapHas(s.stopTimes, tripId) THEN [kind |-> "stopTimes", key |-> tripId]
  ELSE NewArray

timesOf(s, tripId) ==
  IF MapHas(s.stopTimes, tripId) THEN MapGet(s.stopTimes, tripId) ELSE <<>>

\* A callback that calls getShape(shapeId) and keeps what it returns.
CallGetShape(shapeId) ==
  /\ CanStart
  /\ ret' = <<[op |-> "getShape", in |-> <<shapeId>>, val |-> getShape(store, shapeId)]>>
  /\ held' = IF MapHas(store.shapes, shapeId)
             THEN held \cup {[kind |-> "shapes", key |-> shapeId]}
             ELSE held
  /\ UNCHANGED <<disk, store, pc, args, gtfsLoaded>>

\* A callback that calls getTripsByNumber(trainNumber) and keeps what it returns.
CallGetTripsByNumber(trainNumber) ==
  /\ CanStart
  /\ ret' = <<[op |-> "getTripsByNumber", in |-> <<trainNumber>>,
               val |-> getTripsByNumber(store, trainNumber)]>>
  /\ held' = IF MapHas(store.tripsByNumber, trainNumber)
             THEN held \cup {[kind |-> "tripsByNumber", key |-> trainNumber]}
             ELSE held
  /\ UNCHANGED <<disk, store, pc, args, gtfsLoaded>>

\* A callback that calls getStopTimesForTrip(tripId): the result is a new array.
CallGetStopTimesForTrip(tripId) ==
  /\ CanStart
  /\ ret' = <<[op |-> "getStopTimesForTrip", in |-> <<tripId>>,
               val |-> getStopTimesForTrip(store, tripId)]>>
  /\ store' = sort(store, copied(timesRef(store, tripId)),
                   SortBySequence(timesOf(store, tripId)))
  /\ UNCHANGED <<disk, pc, args, gtfsLoaded, held>>

\* A callback of the caller calls pop() on an array it holds.
CallerPops(h) ==
  /\ CanStart
  /\ h \in held
  /\ Deref(store, h) # <<>>
  /\ store' = Assign(store, h, SubSeq(Deref(store, h), 1, Len(Deref(store, h)) - 1))
  /\ ret' = <<[op |-> "pop", in |-> <<h>>, val |-> <<>>]>>
  /\ UNCHANGED <<disk, pc, args, gtfsLoaded, held>>

NextAlias ==
  \/ \E a \in AliasSnapshots : overrideData(a)
  \/ overrideData_populate
  \/ overrideData_flags
  \/ \E shapeId \in ShapeIds : CallGetShape(shapeId)
  \/ \E trainNumber \in TrainNumbers : CallGetTripsByNumber(trainNumber)
  \/ \E tripId \in TripIds : CallGetStopTimesForTrip(tripId)
  \/ \E h \in held : CallerPops(h)
  \/ Return

SpecAlias == Init /\ [][NextAlias]_vars

\* What the queries return on store s.
QueryResults(s) ==
  [stopTimes |-> [tripId \in TripIds |-> getStopTimesForTrip(s, tripId)],
   shape |-> [shapeId \in ShapeIds |-> getShape(s, shapeId)],
   byNumber |-> [trainNumber \in TrainNumbers |-> getTripsByNumber(s, trainNumber)],
   found |-> [p \in StopIds \X StopIds |-> findTripsWithStops(s, p[1], p[2], <<>>)]]

\* C3: callers hold read-only views.  A write of the caller to a value a
\* getter returned, or to an array it handed to overrideData, changes the
\* result of no query.
CallerWritesChangeNoQuery ==
  [][(ret' # <<>> /\ ret'[1].op = "pop") => QueryResults(store') = QueryResults(store)]_vars

-----------------------------------------------------------------------------
(* Strings *)

UpperCase == "ABCDEFGHIJKLMNOPQRSTUVWXYZ"
LowerCase == "abcdefghijklmnopqrstuvwxyz"
Digits == "0123456789"

\* The 1-based place of the character c in the string chars, 0 if absent.
RECURSIVE IndexFrom(_, _, _)
IndexFrom(chars, c, i) ==
  IF i > Len(chars) THEN 0
  ELSE IF SubSeq(chars, i, i) = c THEN i
  ELSE IndexFrom(chars, c, i + 1)

IndexIn(chars, c) == IndexFrom(chars, c, 1)

\* String.prototype.toLowerCase
RECURSIVE toLowerCase(_)
toLowerCase(str) ==
  IF str = "" THEN ""
  ELSE LET c == SubSeq(str, 1, 1)
           u == IndexIn(UpperCase, c)
       IN (IF u = 0 THEN c ELSE SubSeq(LowerCase, u, u))
          \o toLowerCase(SubSeq(str, 2, Len(str)))

\* String.prototype.startsWith, endsWith, includes, substring(start)
startsWith(str, prefix) ==
  Len(prefix) <= Len(str) /\ SubSeq(str, 1, Len(prefix)) = prefix

endsWith(str, suffix) ==
  Len(suffix) <= Len(str)
  /\ SubSeq(str, Len(str) - Len(suffix) + 1, Len(str)) = suffix

includes(str, part) ==
  \E i \in 0..(Len(str) - Len(part)) : SubSeq(str, i + 1, i + Len(part)) = part

substring(str, start) ==
  IF start >= Len(str) THEN "" ELSE SubSeq(str, start + 1, Len(str))

\* Every character of str is one of chars.
AllIn(str, chars) ==
  \A i \in 1..Len(str) : IndexIn(chars, SubSeq(str, i, i)) # 0

\* /^\d+$/.test(str)
IsNumber(str) == str # "" /\ AllIn(str, Digits)

\* str.match(/^([a-z]+)(\d{1,4})$/): <<>> or <<group 2>>.
nameTrainMatch(str) ==
  LET cuts == {n \in 1..4 :
                 /\ n < Len(str)
                 /\ AllIn(SubSeq(str, Len(str) - n + 1, Len(str)), Digits)
                 /\ AllIn(SubSeq(str, 1, Len(str) - n), LowerCase)}
  IN IF cuts = {} THEN <<>>
     ELSE LET n == CHOOSE n \in cuts : TRUE
          IN <<SubSeq(str, Len(str) - n + 1, Len(str))>>

\* tripId.match(/_(\d+)$/): <<>> or <<group 1>>.
underscoreNumberMatch(str) ==
  LET cuts == {n \in 1..(Len(str) - 1) :
                 /\ SubSeq(str, Len(str) - n, Len(str) - n) = "_"
                 /\ AllIn(SubSeq(str, Len(str) - n + 1, Len(str)), Digits)}
  IN IF cuts = {} THEN <<>>
     ELSE LET n == CHOOSE n \in cuts : TRUE
          IN <<SubSeq(str, Len(str) - n + 1, Len(str))>>

-----------------------------------------------------------------------------
(* search, searchStations *)

\* The limits of search: trips taken from the short-name index, results
\* returned; and of searchStations.
MaxTrainMatches == 5
MaxSearchResults == 20
MaxStationResults == 10

\* getTrainNumber(tripId)
getTrainNumber(s, tripId) ==
  IF MapHas(s.trips, tripId) /\ Truthy(MapGet(s.trips, tripId).trip_short_name)
  THEN MapGet(s.trips, tripId).trip_short_name
  ELSE IF underscoreNumberMatch(tripId) # <<>> THEN underscoreNumberMatch(tripId)[1]
  ELSE tripId

\* let trainNumberQuery = ''; if (queryLower.startsWith('amt')) ... else if ...
trainNumberQueryOf_keepsT(query) ==
  LET queryLower == toLowerCase(query) IN
  IF startsWith(queryLower, "amt") THEN substring(queryLower, 2)
  ELSE IF IsNumber(query) THEN query
  ELSE IF nameTrainMatch(queryLower) # <<>> THEN nameTrainMatch(queryLower)[1]
  ELSE ""

trainNumberQueryOf(query) ==
  LET queryLower == toLowerCase(query) IN
  IF startsWith(queryLower, "amt") THEN substring(queryLower, 3)
  ELSE IF IsNumber(query) THEN query
  ELSE IF nameTrainMatch(queryLower) # <<>> THEN nameTrainMatch(queryLower)[1]
  ELSE ""

SearchResult(id, name, subtitle, type, data) ==
  [id |-> id, name |-> name, subtitle |-> subtitle, type |-> type, data |-> data]

\* this.stops.forEach(stop => ...): the results of one stop.
stationResults(stop, query) ==
  LET queryLower == toLowerCase(query) IN
  IF includes(toLowerCase(stop.stop_name), queryLower)
  THEN <<SearchResult("stop-name-" \o stop.stop_id, stop.stop_name,
                      "Name contains \"" \o query \o "\"", "station", stop)>>
  ELSE IF includes(toLowerCase(stop.stop_id), queryLower)
  THEN <<SearchResult("stop-id-" \o stop.stop_id, stop.stop_name,
                      "Station matches \"" \o stop.stop_id \o "\"", "station", stop)>>
  ELSE <<>>

\* this.routes.forEach(route => ...): the results of one route.
routeResults(route, query) ==
  LET queryLower == toLowerCase(query) IN
  IF \/ includes(toLowerCase(route.route_long_name), queryLower)
     \/ /\ route.route_short_name # Undef
        /\ includes(toLowerCase(route.route_short_name), queryLower)
     \/ includes(toLowerCase(route.route_id), queryLower)
  THEN <<SearchResult("route-" \o route.route_id, route.route_long_name,
                      "AMT" \o route.route_id, "route", route)>>
  ELSE <<>>

\* The body of `for (const trip of matchingTrips.slice(0, 5))`.
trainResult(s, trip) ==
  LET routeName == getRouteName(s, trip.route_id)
      displayName == IF routeName # "Unknown Route"
                     THEN routeName \o " " \o trip.trip_short_name
                     ELSE "Train " \o trip.trip_short_name
  IN SearchResult("train-" \o trip.trip_id, displayName,
                  IF Truthy(trip.trip_headsign) THEN trip.trip_headsign ELSE "",
                  "train", [trip_id |-> trip.trip_id])

\* new Set(times.map(t => t.stop_id)) in insertion order.
RECURSIVE uniqueStopsFrom(_, _)
uniqueStopsFrom(times, seen) ==
  IF times = <<>> THEN seen
  ELSE uniqueStopsFrom(Tail(times),
                       IF Head(times).stop_id \in SeqToSet(seen) THEN seen
                       ELSE Append(seen, Head(times).stop_id))

uniqueStops(times) == uniqueStopsFrom(times, <<>>)

\* The body of this.stopTimes.forEach((times, tripId) => ...) in search:
\* results with what this trip pushes.
tripResults(s, tripId, times, query, results) ==
  LET queryLower == toLowerCase(query)
      trainNumberQuery == trainNumberQueryOf(query)
      trainNumber == getTrainNumber(s, tripId)
      hasTrip == MapHas(s.trips, tripId)
      routeName == IF hasTrip /\ Truthy(MapGet(s.trips, tripId).route_id)
                   THEN getRouteName(s, MapGet(s.trips, tripId).route_id) ELSE ""
      displayName == IF routeName # "" /\ routeName # "Unknown Route"
                     THEN routeName \o " " \o trainNumber
                     ELSE "Train " \o trainNumber
      headsign == IF hasTrip /\ Truthy(MapGet(s.trips, tripId).trip_headsign)
                  THEN MapGet(s.trips, tripId).trip_headsign ELSE ""
      legacy == IF /\ trainNumberQuery # ""
                   /\ endsWith(toLowerCase(tripId), trainNumberQuery)
                   /\ ~\E i \in 1..Len(results) : results[i].id = "train-" \o tripId
                THEN <<SearchResult("tripid-" \o tripId, displayName, headsign, "train",
                                    [trip_id |-> tripId])>>
                ELSE <<>>
      stopIds == uniqueStops(times)
      hit(stopId) == /\ MapHas(s.stops, stopId)
                     /\ includes(toLowerCase(MapGet(s.stops, stopId).stop_name), queryLower)
      hits == SelectSeq(stopIds, hit)
  IN results \o legacy
     \o [i \in 1..Len(hits) |->
          SearchResult("trip-stop-" \o tripId \o "-" \o hits[i], displayName,
                       "Stops at \"" \o MapGet(s.stops, hits[i]).stop_name \o "\"",
                       "train",
                       [trip_id |-> tripId, stop_id |-> hits[i],
                        stop_name |-> MapGet(s.stops, hits[i]).stop_name])]

RECURSIVE tripResultsFrom(_, _, _, _)
tripResultsFrom(s, i, query, results) ==
  IF i > MapSize(s.stopTimes) THEN results
  ELSE tripResultsFrom(s, i + 1, query,
                       tripResults(s, s.stopTimes[i].k, s.stopTimes[i].v, query, results))

RECURSIVE Flatten(_)
Flatten(lists) == IF lists = <<>> THEN <<>> ELSE Head(lists) \o Flatten(Tail(lists))

\* The results array of search before the final filter, in push order.
searchCandidates(s, query) ==
  LET trainNumberQuery == trainNumberQueryOf(query)
      stations == Flatten([i \in 1..MapSize(s.stops) |->
                             stationResults(s.stops[i].v, query)])
      routes == Flatten([i \in 1..MapSize(s.routes) |->
                           routeResults(s.routes[i].v, query)])
      matchingTrips == IF trainNumberQuery # "" /\ MapHas(s.tripsByNumber, trainNumberQuery)
                       THEN MapGet(s.tripsByNumber, trainNumberQuery) ELSE <<>>
      firstTrips == slice(matchingTrips, 0,
                          IF Len(matchingTrips) < MaxTrainMatches THEN Len(matchingTrips)
                          ELSE MaxTrainMatches)
      trains == [i \in 1..Len(firstTrips) |-> trainResult(s, firstTrips[i])]
  IN tripResultsFrom(s, 1, query, stations \o routes \o trains)

\* results.filter(result => { if (seen.has(result.id)) return false; ... })
uniqueById_all(results, seen) == results

RECURSIVE uniqueById(_, _)
uniqueById(results, seen) ==
  IF results = <<>> THEN <<>>
  ELSE IF Head(results).id \in seen THEN uniqueById(Tail(results), seen)
  ELSE <<Head(results)>> \o uniqueById(Tail(results), seen \cup {Head(results).id})

\* search(query)
search(s, query) ==
  LET unique == uniqueById(searchCandidates(s, query), {})
  IN slice(unique, 0, IF Len(unique) < MaxSearchResults THEN Len(unique)
                      ELSE MaxSearchResults)

\* searchStations(query)
searchStations(s, query) ==
  LET queryLower == toLowerCase(query)
      hit(stop) == \/ includes(toLowerCase(stop.stop_name), queryLower)
                   \/ includes(toLowerCase(stop.stop_id), queryLower)
      results == SelectSeq(MapValues(s.stops), hit)
  IN slice(results, 0, IF Len(results) < MaxStationResults THEN Len(results)
                       ELSE MaxStationResults)

-----------------------------------------------------------------------------
(* getIntermediateStops, getTripsForStop and their callers *)

\* times.slice(1).map(...).sort(...)
getIntermediateStops_fromSecond(s, tripId) ==
  LET times == timesOf(s, tripId)
      inner == slice(times, 1, Len(times))
  IN SortBySequence([i \in 1..Len(inner) |-> Enriched(s, inner[i])])

\* times.slice(1, -1).map(...).sort(...): the end -1 counts from the end of
\* the stored list, and the slice is taken before the sort.
getIntermediateStops(s, tripId) ==
  LET times == timesOf(s, tripId)
      inner == slice(times, 1, Len(times) - 1)
  IN SortBySequence([i \in 1..Len(inner) |-> Enriched(s, inner[i])])

\* this.stopTimes.forEach((times, tripId) => ...) from entry i on; trips is
\* the array built so far.
RECURSIVE TripsForStopFrom(_, _, _, _, _)
TripsForStopFrom(s, i, stopId, date, trips) ==
  IF i > MapSize(s.stopTimes) THEN trips
  ELSE LET tripId == s.stopTimes[i].k
           times == s.stopTimes[i].v
       IN IF findIndex(times, stopId) # -1 /\ tripId \notin SeqToSet(trips)
          THEN IF FilteredByDate(s, tripId, date)
               THEN TripsForStopFrom(s, i + 1, stopId, date, trips)
               ELSE TripsForStopFrom(s, i + 1, stopId, date, Append(trips, tripId))
          ELSE TripsForStopFrom(s, i + 1, stopId, date, trips)

getTripsForStop(s, stopId, date) == TripsForStopFrom(s, 1, stopId, date, <<>>)

\* A callback that calls getIntermediateStops(tripId).
CallGetIntermediateStops(tripId) ==
  /\ CanStart
  /\ ret' = <<[op |-> "getIntermediateStops", in |-> <<tripId>>,
               val |-> getIntermediateStops(store, tripId)]>>
  /\ store' = LET times == timesOf(store, tripId) IN
              sort(store, copied(timesRef(store, tripId)),
                   SortBySequence(slice(times, 1, Len(times) - 1)))
  /\ UNCHANGED <<disk, pc, args, gtfsLoaded, held>>

\* A callback that calls getTripsForStop(stopId, date?).
CallGetTripsForStop(stopId, date) ==
  /\ CanStart
  /\ ret' = <<[op |-> "getTripsForStop", in |-> <<stopId, date>>,
               val |-> getTripsForStop(store, stopId, date)]>>
  /\ UNCHANGED <<disk, store, pc, args, gtfsLoaded, held>>

\* The trip ids and stop ids the callers ask about: "T3" and "D" are in no
\* snapshot.
QueryTripIds == {"T1", "T2", "T3", "1"}
QueryStopIds == {"A", "B", "C", "D"}

\* A run from A to B that leaves A at dep; "25:15:00" is 01:15 of the next day.
Run(dep) ==
  <<StopTime("A", 1, dep, dep), StopTime("B", 2, "26:30:00", "26:35:00")>>

RunDepartures == {"07:30:00", "08:00:00", "25:15:00"}

\* Trips per generated set of runs.
MaxRuns == 3

\* Runs of up to MaxRuns trips in every order of the stop-time index; "1" is a
\* trip id without a Trip record.  T1 and T2 have the same short name, or T2
\* has none.
RunSnapshots ==
  {Args(DRoutes, DStops, e, <<>>, tr, DCalendar, <<>>) :
     e \in {q \in RowSeqs({[k |-> key, v |-> Run(dep)] :
                              key \in {"T1", "T2", "1"}, dep \in RunDepartures},
                           MaxRuns) :
              \A i, j \in 1..Len(q) : i # j => q[i].k # q[j].k},
     tr \in {DTrips,
             <<Trip("T1", "R1", "1", "North", "S1"), Trip("T2", "R1", "", "North", "S2")>>}}

\* One trip more under the short name "1" than search takes from the
\* short-name index; every trip calls at A, B and C.
ManyTripIds == <<"T1", "T2", "T3", "T4", "T5", "T6", "T7">>

ManyTripsSnapshot ==
  Args(DRoutes, DStops,
       [i \in 1..(MaxTrainMatches + 1) |-> [k |-> ManyTripIds[i], v |-> DTimes]],
       <<>>,
       [i \in 1..(MaxTrainMatches + 1) |-> Trip(ManyTripIds[i], "R1", "1", "North", "S1")],
       <<>>, <<>>)

\* As many stops whose id contains "1" as search returns results.
ManyStopsSnapshot ==
  Args(DRoutes,
       [i \in 1..MaxSearchResults |-> Stop("1" \o SubSeq(LowerCase, i, i), "Halt")],
       DStopTimes, <<>>, DTrips, <<>>, <<>>)

\* Trip and stop ids that contain the "-" of the synthetic ids of search.
DashSnapshot ==
  Args(DRoutes,
       <<Stop("A", "Union Station"), Stop("1-A", "Union Annex")>>,
       <<[k |-> "T-1", v |-> <<StopTime("A", 1, "08:00:00", "08:00:00")>>],
         [k |-> "T", v |-> <<StopTime("1-A", 1, "08:00:00", "08:00:00")>>]>>,
       <<>>, <<>>, <<>>, <<>>)

QuerySnapshots ==
  {NoArgs} \cup StopTimeSnapshots \cup StopSnapshots \cup RunSnapshots

SearchSnapshots ==
  {NoArgs} \cup StopTimeSnapshots \cup StopSnapshots \cup RouteSnapshots
  \cup TripSnapshots \cup {ManyTripsSnapshot, ManyStopsSnapshot, DashSnapshot}

\* The query strings the callers type.
SearchQueries ==
  {"", "1", "2", "amt1", "AMT1", "Amt2", "amt", "amtt1", "t1", "cardinal1",
   "union", "STATION", "a", "zzz"}

QueryRouteIds == {"R1", "R2", "R9", ""}

\* A callback that calls search(query).
CallSearch(query) ==
  /\ CanStart
  /\ ret' = <<[op |-> "search", in |-> <<query>>, val |-> search(store, query)]>>
  /\ UNCHANGED <<disk, store, pc, args, gtfsLoaded, held>>

\* The queries given to searchStations.
StationQueries == {"", "1", "union", "zzz"}

\* A callback that calls searchStations(query).
CallSearchStations(query) ==
  /\ CanStart
  /\ ret' = <<[op |-> "searchStations", in |-> <<query>>,
               val |-> searchStations(store, query)]>>
  /\ UNCHANGED <<disk, store, pc, args, gtfsLoaded, held>>

\* A callback that calls getRouteName(routeId).
CallGetRouteName(routeId) ==
  /\ CanStart
  /\ ret' = <<[op |-> "getRouteName", in |-> <<routeId>>,
               val |-> getRouteName(store, routeId)]>>
  /\ UNCHANGED <<disk, store, pc, args, gtfsLoaded, held>>

\* A callback that calls getStopName(stopId).
CallGetStopName(stopId) ==
  /\ CanStart
  /\ ret' = <<[op |-> "getStopName", in |-> <<stopId>>,
               val |-> getStopName(store, stopId)]>>
  /\ UNCHANGED <<disk, store, pc, args, gtfsLoaded, held>>

\* The callers of the trip queries.
NextQueries ==
  \/ \E a \in QuerySnapshots : overrideData(a)
  \/ overrideData_populate
  \/ overrideData_flags
  \/ \E tripId \in QueryTripIds : CallGetStopTimesForTrip(tripId)
  \/ \E tripId \in QueryTripIds : CallGetIntermediateStops(tripId)
  \/ \E stopId \in QueryStopIds, date \in OptDates : CallGetTripsForStop(stopId, date)
  \/ \E fromStopId \in QueryStopIds, toStopId \in QueryStopIds, date \in OptDates :
       CallFindTripsWithStops(fromStopId, toStopId, date)
  \/ Return

SpecQueries == Init /\ [][NextQueries]_vars

\* The callers of every query: search, the lookups and the trip queries.
NextSearch ==
  \/ \E a \in SearchSnapshots : overrideData(a)
  \/ overrideData_populate
  \/ overrideData_flags
  \/ \E query \in SearchQueries : CallSearch(query)
  \/ \E query \in StationQueries : CallSearchStations(query)
  \/ \E routeId \in QueryRouteIds : CallGetRouteName(routeId)
  \/ \E stopId \in QueryStopIds : CallGetStopName(stopId)
  \/ \E tripId \in QueryTripIds : CallGetStopTimesForTrip(tripId)
  \/ \E tripId \in QueryTripIds : CallGetIntermediateStops(tripId)
  \/ \E stopId \in QueryStopIds, date \in OptDates : CallGetTripsForStop(stopId, date)
  \/ \E fromStopId \in QueryStopIds, toStopId \in QueryStopIds, date \in {<<>>, <<Day(2)>>} :
       CallFindTripsWithStops(fromStopId, toStopId, date)
  \/ \E serviceId \in ServiceIds, date \in {Day(2), Day(4)} :
       CallIsServiceActiveOnDate(serviceId, date)
  \/ Return

SpecSearch == Init /\ [][NextSearch]_vars

\* Map.prototype.forEach on a hash table that keeps no insertion order.
forEach_anyOrder(m) == {m, [i \in 1..Len(m) |-> m[Len(m) + 1 - i]]}

\* Map.prototype.forEach: the orders in which it can visit the entries of m.
\* A Map is visited in insertion order, so there is one.
forEach(m) == {m}

\* The store as the forEach loops of one call of search can see it.
Visited(s) ==
  {[s EXCEPT !.stops = a, !.routes = b, !.stopTimes = c] :
     a \in forEach(s.stops), b \in forEach(s.routes), c \in forEach(s.stopTimes)}

\* A callback that calls search(query) twice.
CallSearchTwice(query) ==
  /\ CanStart
  /\ \E s1 \in Visited(store), s2 \in Visited(store) :
       ret' = <<[op |-> "search", in |-> <<query>>, val |-> search(s1, query)],
                [op |-> "search", in |-> <<query>>, val |-> search(s2, query)]>>
  /\ UNCHANGED <<disk, store, pc, args, gtfsLoaded, held>>

NextTwice ==
  \/ \E a \in SearchSnapshots : overrideData(a)
  \/ overrideData_populate
  \/ overrideData_flags
  \/ \E query \in SearchQueries : CallSearchTwice(query)
  \/ Return

SpecTwice == Init /\ [][NextTwice]_vars

\* The references, history entries and delete arguments the callers pass.
Refs ==
  {SavedTrainRef("T1", "A", "B", "1"), SavedTrainRef("T1", "A", "C", "1"),
   SavedTrainRef("T2", Undef, Undef, Undef)}

Entries == {CompletedTrip("T1", "A", "B", "Mar 1"), CompletedTrip("T2", "A", "C", "Mar 1")}

Deletes == {<<"T1", Undef, Undef>>, <<"T1", "A", "B">>, <<"T2", Undef, Undef>>}

\* saveTrainRef(ref), up to `await this.getSavedTrainRefs()`.
saveTrainRef(c, ref) ==
  /\ calls[c].pc = "new"
  /\ calls' = [calls EXCEPT ![c] = [NoCall EXCEPT !.op = "saveTrainRef", !.in = <<ref>>,
                                                  !.pc = "getItem"]]
  /\ UNCHANGED <<AsyncStorage, store, pc, args, ret, gtfsLoaded, held>>

\* addToHistory(entry), up to `await this.getTripHistory()`.
addToHistory(c, entry) ==
  /\ calls[c].pc = "new"
  /\ calls' = [calls EXCEPT ![c] = [NoCall EXCEPT !.op = "addToHistory", !.in = <<entry>>,
                                                  !.pc = "getItem"]]
  /\ UNCHANGED <<AsyncStorage, store, pc, args, ret, gtfsLoaded, held>>

\* deleteTrainByTripId(tripId, fromCode?, toCode?), up to
\* `await this.getSavedTrainRefs()`.
deleteTrainByTripId(c, tripId, fromCode, toCode) ==
  /\ calls[c].pc = "new"
  /\ calls' = [calls EXCEPT ![c] = [NoCall EXCEPT !.op = "deleteTrainByTripId",
                                                  !.in = <<tripId, fromCode, toCode>>,
                                                  !.pc = "getItem"]]
  /\ UNCHANGED <<AsyncStorage, store, pc, args, ret, gtfsLoaded, held>>

\* getItem resolves in saveTrainRef: from the read to `await setItem(...)`,
\* or to `return false`.
saveTrainRef_read(c) ==
  /\ calls[c].pc = "getItem" /\ calls[c].op = "saveTrainRef"
  /\ LET refs == parse(AsyncStorage.savedTrainRefs)
         ref == calls[c].in[1]
     IN calls' = [calls EXCEPT ![c] =
                    IF refExists(refs, ref)
                    THEN [@ EXCEPT !.pc = "done", !.result = FALSE]
                    ELSE [@ EXCEPT !.pc = "setItem", !.local = Append(refs, ref)]]
  /\ UNCHANGED <<AsyncStorage, store, pc, args, ret, gtfsLoaded, held>>

\* getItem resolves in addToHistory: history.unshift(entry) on the parsed list.
addToHistory_read(c) ==
  /\ calls[c].pc = "getItem" /\ calls[c].op = "addToHistory"
  /\ LET history == parse(AsyncStorage.tripHistory)
         entry == calls[c].in[1]
     IN calls' = [calls EXCEPT ![c] =
                    IF entryExists(history, entry)
                    THEN [@ EXCEPT !.pc = "done", !.result = FALSE]
                    ELSE [@ EXCEPT !.pc = "setItem", !.local = <<entry>> \o history]]
  /\ UNCHANGED <<AsyncStorage, store, pc, args, ret, gtfsLoaded, held>>

\* getItem resolves in deleteTrainByTripId: refs.filter(...).
deleteTrainByTripId_read(c) ==
  /\ calls[c].pc = "getItem" /\ calls[c].op = "deleteTrainByTripId"
  /\ LET refs == parse(AsyncStorage.savedTrainRefs)
         keep(r) == keptByDelete(r, calls[c].in[1], calls[c].in[2], calls[c].in[3])
     IN calls' = [calls EXCEPT ![c] = [@ EXCEPT !.pc = "setItem",
                                                !.local = SelectSeq(refs, keep)]]
  /\ UNCHANGED <<AsyncStorage, store, pc, args, ret, gtfsLoaded, held>>

\* AsyncStorage.setItem(key, JSON.stringify(list)) takes effect and the method
\* returns true.
setItem(c) ==
  /\ calls[c].pc = "setItem"
  /\ AsyncStorage' =
       IF calls[c].op = "addToHistory"
       THEN [AsyncStorage EXCEPT !.tripHistory = stringify(calls[c].local)]
       ELSE [AsyncStorage EXCEPT !.savedTrainRefs = stringify(calls[c].local)]
  /\ calls' = [calls EXCEPT ![c] = [@ EXCEPT !.pc = "done", !.result = TRUE]]
  /\ UNCHANGED <<store, pc, args, ret, gtfsLoaded, held>>

\* No call is in flight.
AllFinished == \A c \in CallIds : calls[c].pc \in {"new", "done"}

\* The callers have their results; the next calls are new ones.
Forget ==
  /\ AllFinished
  /\ \E c \in CallIds : calls[c].pc = "done"
  /\ calls' = [c \in CallIds |-> NoCall]
  /\ UNCHANGED <<AsyncStorage, store, pc, args, ret, gtfsLoaded, held>>

NextStorage ==
  \/ \E c \in CallIds, ref \in Refs : saveTrainRef(c, ref)
  \/ \E c \in CallIds, entry \in Entries : addToHistory(c, entry)
  \/ \E c \in CallIds, d \in Deletes : deleteTrainByTripId(c, d[1], d[2], d[3])
  \/ \E c \in CallIds : saveTrainRef_read(c)
  \/ \E c \in CallIds : addToHistory_read(c)
  \/ \E c \in CallIds : deleteTrainByTripId_read(c)
  \/ \E c \in CallIds : setItem(c)
  \/ Forget

SpecStorage == Init /\ [][NextStorage]_vars

\* The sequence q without its first and last elements.
WithoutEnds(q) == IF Len(q) <= 2 THEN <<>> ELSE SubSeq(q, 2, Len(q) - 1)

\* C11: intermediate exclusion (content).  For every trip id,
\* getIntermediateStops(tripId) is, element for element, the sequence
\* getStopTimesForTrip(tripId) (sorted by stop_sequence) without its first and
\* last elements, whatever the order in which the stop-times were loaded.
IntermediateIsSortedWithoutEnds ==
  Returned("getIntermediateStops") =>
    ret[1].val = WithoutEnds(getStopTimesForTrip(store, ret[1].in[1]))

\* The stop-time list the snapshot gives tripId, <<>> if it gives none.
SnapshotTimes(a, tripId) ==
  IF \E i \in 1..Len(a.stopTimes) : a.stopTimes[i].k = tripId
  THEN a.stopTimes[CHOOSE i \in 1..Len(a.stopTimes) : a.stopTimes[i].k = tripId].v
  ELSE <<>>

SnapshotHasTimes(a, tripId) ==
  tripId # "" /\ \E i \in 1..Len(a.stopTimes) : a.stopTimes[i].k = tripId

\* The display name the snapshot gives stopId: the name of the last valid row
\* with that id, the id itself when there is no such row or no name.
SnapshotStopName(a, stopId) ==
  LET i == LastIndex(a.stops, LAMBDA r : ValidStop(r) /\ r.stop_id = stopId)
  IN IF i # 0 /\ Truthy(a.stops[i].stop_name) THEN a.stops[i].stop_name ELSE stopId

\* The stop-time row an enriched stop-time was made from.
Plain(e) == StopTime(e.stop_id, e.stop_sequence, e.arrival_time, e.departure_time)

Count(q, x) == Cardinality({i \in 1..Len(q) : q[i] = x})

\* val holds the rows of times, each once per occurrence, each with the
\* snapshot's stop name and the stop id as stop code.
SameRowsEnriched(val, times, a) ==
  /\ Len(val) = Len(times)
  /\ \A i \in 1..Len(times) :
       Count([j \in 1..Len(val) |-> Plain(val[j])], times[i]) = Count(times, times[i])
  /\ \A j \in 1..Len(val) :
       /\ val[j].stop_name = SnapshotStopName(a, val[j].stop_id)
       /\ val[j].stop_code = val[j].stop_id

DistinctSequences(times) ==
  \A i, j \in 1..Len(times) :
     i # j => times[i].stop_sequence # times[j].stop_sequence

\* C12 as stated: sort invariant.  For any loaded trip id, getStopTimesForTrip
\* returns all of the trip's stop-times, none added and none lost, each
\* enriched with the resolved stop name, in strictly increasing stop_sequence.
StopTimesStrictlyIncreasing ==
  (Returned("getStopTimesForTrip") /\ SnapshotHasTimes(args, ret[1].in[1])) =>
    /\ SameRowsEnriched(ret[1].val, SnapshotTimes(args, ret[1].in[1]), args)
    /\ \A i \in 1..(Len(ret[1].val) - 1) :
         ret[1].val[i].stop_sequence < ret[1].val[i + 1].stop_sequence

\* C12 as amended: the same stop-times, enriched, in non-decreasing
\* stop_sequence; strictly increasing whenever the stop-times loaded for the
\* trip have pairwise different stop_sequence values.
StopTimesSortedBySequence ==
  (Returned("getStopTimesForTrip") /\ SnapshotHasTimes(args, ret[1].in[1])) =>
    /\ SameRowsEnriched(ret[1].val, SnapshotTimes(args, ret[1].in[1]), args)
    /\ \A i \in 1..(Len(ret[1].val) - 1) :
         /\ ret[1].val[i].stop_sequence <= ret[1].val[i + 1].stop_sequence
         /\ DistinctSequences(SnapshotTimes(args, ret[1].in[1])) =>
              ret[1].val[i].stop_sequence < ret[1].val[i + 1].stop_sequence

\* Three stop-times loaded in descending stop_sequence come back ascending.
WitnessLoadedDescending ==
  /\ Returned("getStopTimesForTrip")
  /\ LET times == SnapshotTimes(args, ret[1].in[1]) IN
       /\ Len(times) = 3
       /\ times[1].stop_sequence > times[2].stop_sequence
       /\ times[2].stop_sequence > times[3].stop_sequence
       /\ ret[1].val[1].stop_sequence = times[3].stop_sequence

\* The short display name of a trip of store s, "" if it has none.
ShortName(s, tripId) ==
  IF MapHas(s.trips, tripId) /\ Truthy(MapGet(s.trips, tripId).trip_short_name)
  THEN MapGet(s.trips, tripId).trip_short_name
  ELSE ""

\* Matches k and l are trips of the same short display name that leave the
\* "from" stop at the same time.
SameRun(s, k, l) ==
  /\ ShortName(s, k.tripId) # ""
  /\ ShortName(s, k.tripId) = ShortName(s, l.tripId)
  /\ k.fromStop.departure_time = l.fromStop.departure_time

\* C13: dedup by physical run.  findTripsWithStops never returns two matches
\* whose trips have the same short display name and the same "from"
\* departure_time; of the qualifying trips with the same pair exactly one is
\* returned, the first of them in the departure-sorted order.
OneMatchPerRun ==
  Returned("findTripsWithStops") =>
    LET val == ret[1].val
        sorted == SortByDeparture(
                    MatchesFrom(store, 1, ret[1].in[1], ret[1].in[2], ret[1].in[3]))
    IN /\ \A i, j \in 1..Len(val) : i # j => ~SameRun(store, val[i], val[j])
       /\ \A k \in 1..Len(sorted) :
            ShortName(store, sorted[k].tripId) # "" =>
              LET first == CHOOSE f \in 1..Len(sorted) :
                             /\ SameRun(store, sorted[f], sorted[k])
                             /\ \A g \in 1..(f - 1) : ~SameRun(store, sorted[g], sorted[k])
              IN /\ Cardinality({i \in 1..Len(val) : SameRun(store, val[i], sorted[k])}) = 1
                 /\ \E i \in 1..Len(val) : val[i] = sorted[first]

\* The Trip record the snapshot gives tripId: <<>> or <<row>>.
SnapshotTrip(a, tripId) ==
  LET i == LastIndex(a.trips, LAMBDA r : ValidTrip(r) /\ r.trip_id = tripId)
  IN IF i = 0 THEN <<>> ELSE <<a.trips[i]>>

\* The trip ids of the snapshot whose stop-time list visits stopId.
TripsVisiting(a, stopId) ==
  {a.stopTimes[i].k : i \in {j \in 1..Len(a.stopTimes) :
     /\ a.stopTimes[j].k # ""
     /\ \E n \in 1..Len(a.stopTimes[j].v) : a.stopTimes[j].v[n].stop_id = stopId}}

\* C14: getTripsForStop(stopId, date?) returns exactly the trip ids whose
\* stop-time list has a stop-time of stopId, except, when a date is given, the
\* trips whose owning service isServiceActiveOnDate reports inactive on that
\* date; without a date no trip is left out; no trip id is returned twice.
TripsForStopExact ==
  Returned("getTripsForStop") =>
    LET val == ret[1].val
        stopId == ret[1].in[1]
        date == ret[1].in[2]
        Inactive(tripId) ==
          /\ date # <<>>
          /\ SnapshotTrip(args, tripId) # <<>>
          /\ ~isServiceActiveOnDate(store, SnapshotTrip(args, tripId)[1].service_id,
                                    date[1])
    IN /\ SeqToSet(val) = {tripId \in TripsVisiting(args, stopId) : ~Inactive(tripId)}
       /\ \A i, j \in 1..Len(val) : i # j => val[i] # val[j]

\* With a date, one visiting trip is left out for its service and the trip
\* without a Trip record is returned.
WitnessTripLeftOutByDate ==
  /\ Returned("getTripsForStop")
  /\ ret[1].in[2] # <<>>
  /\ store.hasCalendarData
  /\ "T2" \in TripsVisiting(args, ret[1].in[1])
  /\ "T2" \notin SeqToSet(ret[1].val)
  /\ {"T1", "1"} \subseteq SeqToSet(ret[1].val)

\* x precedes or equals y in the order of the strings' code units, in which
\* the digits come before ":".
CodeUnits == "0123456789:"

CodeUnit(c) == CHOOSE i \in 1..Len(CodeUnits) : SubSeq(CodeUnits, i, i) = c

LexLeq(x, y) ==
  \/ \E n \in 1..Len(x) :
        /\ n <= Len(y)
        /\ SubSeq(x, 1, n - 1) = SubSeq(y, 1, n - 1)
        /\ CodeUnit(SubSeq(x, n, n)) < CodeUnit(SubSeq(y, n, n))
  \/ /\ Len(x) <= Len(y)
     /\ x = SubSeq(y, 1, Len(x))

\* C17: findTripsWithStops returns its matches in non-decreasing order of the
\* "from" departure_time, compared as plain strings: a departure of 24:00:00
\* or later comes after every earlier time of the service day.
MatchesOrderedByDeparture ==
  Returned("findTripsWithStops") =>
    \A i \in 1..(Len(ret[1].val) - 1) :
       LexLeq(ret[1].val[i].fromStop.departure_time,
              ret[1].val[i + 1].fromStop.departure_time)

\* A trip that leaves at 25:15:00 was indexed before one that leaves at
\* 08:00:00 and is returned after it.
WitnessPostMidnightSortsLast ==
  /\ Returned("findTripsWithStops")
  /\ Len(ret[1].val) >= 2
  /\ ret[1].val[Len(ret[1].val)].fromStop.departure_time = "25:15:00"
  /\ ret[1].val[1].fromStop.departure_time = "08:00:00"
  /\ MapIndex(store.stopTimes, ret[1].val[Len(ret[1].val)].tripId)
       < MapIndex(store.stopTimes, ret[1].val[1].tripId)

\* The enriched stop-times a query result carries, with their trip ids.
ReturnedStopTimes ==
  IF Returned("getStopTimesForTrip") \/ Returned("getIntermediateStops")
  THEN {[tripId |-> ret[1].in[1], time |-> ret[1].val[i]] : i \in 1..Len(ret[1].val)}
  ELSE IF Returned("findTripsWithStops")
  THEN UNION {{[tripId |-> ret[1].val[i].tripId, time |-> ret[1].val[i].fromStop],
               [tripId |-> ret[1].val[i].tripId, time |-> ret[1].val[i].toStop]}
              \cup {[tripId |-> ret[1].val[i].tripId,
                      time |-> ret[1].val[i].intermediateStops[n]] :
                       n \in 1..Len(ret[1].val[i].intermediateStops)} :
              i \in 1..Len(ret[1].val)}
  ELSE {}

PostMidnight(x) == LexLeq("24:00:00", x)

\* C20: post-midnight times are kept verbatim.  Every stop-time that
\* getStopTimesForTrip, getIntermediateStops or findTripsWithStops (fromStop,
\* toStop, intermediateStops) returns carries the arrival_time and
\* departure_time strings of the loaded row it was made from, also when the
\* hour is 24 or more; getStopTimesForTrip returns every such row.
TimesKeptVerbatim ==
  /\ \A e \in ReturnedStopTimes :
       Plain(e.time) \in SeqToSet(SnapshotTimes(args, e.tripId))
  /\ Returned("getStopTimesForTrip") =>
       \A r \in SeqToSet(SnapshotTimes(args, ret[1].in[1])) :
          (ret[1].in[1] # "" /\ (PostMidnight(r.arrival_time) \/ PostMidnight(r.departure_time)))
            => \E e \in ReturnedStopTimes : Plain(e.time) = r

\* A match whose intermediate stop is reached at 25:10:00 and left at 25:15:00.
WitnessPostMidnightIntermediate ==
  /\ Returned("findTripsWithStops")
  /\ \E i \in 1..Len(ret[1].val) :
       /\ Len(ret[1].val[i].intermediateStops) = 1
       /\ ret[1].val[i].intermediateStops[1].arrival_time = "25:10:00"
       /\ ret[1].val[i].intermediateStops[1].departure_time = "25:15:00"

\* The stops and routes of store s that search(query) reports.
StationsMatching(s, query) ==
  {i \in 1..MapSize(s.stops) :
     \/ includes(toLowerCase(s.stops[i].v.stop_name), toLowerCase(query))
     \/ includes(toLowerCase(s.stops[i].v.stop_id), toLowerCase(query))}

RoutesMatching(s, query) ==
  {i \in 1..MapSize(s.routes) :
     \/ includes(toLowerCase(s.routes[i].v.route_long_name), toLowerCase(query))
     \/ /\ s.routes[i].v.route_short_name # Undef
        /\ includes(toLowerCase(s.routes[i].v.route_short_name), toLowerCase(query))
     \/ includes(toLowerCase(s.routes[i].v.route_id), toLowerCase(query))}

\* query asks for train number n: n itself, or n after "amt" in any case.
AsksForTrain(query, n) ==
  \/ query = n
  \/ Len(query) = Len(n) + 3
     /\ toLowerCase(SubSeq(query, 1, 3)) = "amt"
     /\ SubSeq(query, 4, Len(query)) = n

\* val has a train result whose payload is trip tripId.
HasTrainResult(val, tripId) ==
  \E i \in 1..Len(val) : val[i].type = "train" /\ val[i].data.trip_id = tripId

\* The place of the first row of trip tripId in the short-name index under n.
PlaceUnderNumber(s, n, tripId) ==
  IF MapHas(s.tripsByNumber, n)
     /\ \E i \in 1..Len(MapGet(s.tripsByNumber, n)) :
          MapGet(s.tripsByNumber, n)[i].trip_id = tripId
  THEN CHOOSE i \in 1..Len(MapGet(s.tripsByNumber, n)) :
         /\ MapGet(s.tripsByNumber, n)[i].trip_id = tripId
         /\ \A j \in 1..(i - 1) : MapGet(s.tripsByNumber, n)[j].trip_id # tripId
  ELSE 0

\* C15 as stated: train-number search.  For any store with a trip whose short
\* display name N is all digits, search(N) and search("amt" + N), "amt" in any
\* letter case, return a train result whose payload is that trip's id,
\* whatever else the store holds.
TrainNumberSearchFindsTrip ==
  Returned("search") =>
    \A k \in 1..MapSize(store.trips) :
       LET trip == store.trips[k].v IN
       (IsNumber(trip.trip_short_name) /\ AsksForTrain(ret[1].in[1], trip.trip_short_name))
         => HasTrainResult(ret[1].val, trip.trip_id)

\* C15 as amended: the same, for a trip that is among the first
\* MaxTrainMatches trips listed under N in the short-name index and whose
\* place there, added to the number of stations and routes that match the
\* query, is at most MaxSearchResults.
TrainNumberSearchFindsListedTrip ==
  Returned("search") =>
    \A k \in 1..MapSize(store.trips) :
       LET trip == store.trips[k].v
           query == ret[1].in[1]
           place == PlaceUnderNumber(store, trip.trip_short_name, trip.trip_id)
       IN (/\ IsNumber(trip.trip_short_name)
           /\ AsksForTrain(query, trip.trip_short_name)
           /\ place <= MaxTrainMatches
           /\ Cardinality(StationsMatching(store, query))
                + Cardinality(RoutesMatching(store, query)) + place <= MaxSearchResults)
          => HasTrainResult(ret[1].val, trip.trip_id)

\* "AMT1" finds the first five of the six trips of train 1 and not the sixth.
WitnessFiveOfSixTrains ==
  /\ Returned("search")
  /\ ret[1].in[1] = "AMT1"
  /\ Len(getTripsByNumber(store, "1")) = MaxTrainMatches + 1
  /\ \A i \in 1..MaxTrainMatches : HasTrainResult(ret[1].val, ManyTripIds[i])
  /\ ~HasTrainResult(ret[1].val, ManyTripIds[MaxTrainMatches + 1])

\* The places in the candidate list c of the first result of each synthetic id.
FirstOfId(c) == {i \in 1..Len(c) : \A j \in 1..(i - 1) : c[j].id # c[i].id}

\* C16: search cap and uniqueness.  search returns at most MaxSearchResults
\* results, no two with the same synthetic id: the first MaxSearchResults
\* entries of the pass-ordered candidate list without the later repeats of
\* an id.
SearchCappedAndUnique ==
  Returned("search") =>
    LET val == ret[1].val
        c == searchCandidates(store, ret[1].in[1])
        firsts == FirstOfId(c)
    IN /\ Len(val) <= MaxSearchResults
       /\ \A i, j \in 1..Len(val) : i # j => val[i].id # val[j].id
       /\ Len(val) = IF Cardinality(firsts) < MaxSearchResults THEN Cardinality(firsts)
                     ELSE MaxSearchResults
       /\ \A k \in 1..Len(val) :
            \E i \in firsts :
               /\ Cardinality({j \in firsts : j <= i}) = k
               /\ val[k] = c[i]

\* More candidates than the limit: the list is cut.
WitnessSearchCut ==
  /\ Returned("search")
  /\ Len(searchCandidates(store, ret[1].in[1])) > MaxSearchResults
  /\ Len(ret[1].val) = MaxSearchResults

\* C18: no query changes the store.  A call of isServiceActiveOnDate,
\* getStopTimesForTrip, getIntermediateStops, getTripsForStop,
\* findTripsWithStops, search, searchStations or a lookup leaves every index,
\* the order of every stored stop-time list and both flags as they were: the
\* sorting the queries do never reorders stored data.
QueriesLeaveStore ==
  [][ret' # <<>> => store' = store]_vars

\* getStopTimesForTrip has returned a list in another order than the stored
\* one, and the store is still what the load built.
WitnessSortedCopy ==
  /\ Returned("getStopTimesForTrip")
  /\ Len(ret[1].val) = 3
  /\ [i \in 1..3 |-> Plain(ret[1].val[i])] # timesOf(store, ret[1].in[1])
  /\ store = BuildStore(args)

\* In some stop-time list of the snapshot a row of toStopId comes after a row
\* of fromStopId, in the order of the list as loaded.
Follows(a, fromStopId, toStopId) ==
  \E n \in 1..Len(a.stopTimes) :
     /\ a.stopTimes[n].k # ""
     /\ \E i, j \in 1..Len(a.stopTimes[n].v) :
          /\ i < j
          /\ a.stopTimes[n].v[i].stop_id = fromStopId
          /\ a.stopTimes[n].v[j].stop_id = toStopId

\* Nothing of the snapshot matches the query of search.
NothingMatches(a, s, query) ==
  /\ StationsMatching(s, query) = {}
  /\ RoutesMatching(s, query) = {}
  /\ LET n == trainNumberQueryOf(query) IN
       n # "" =>
         /\ \A i \in 1..Len(a.trips) :
              ValidTrip(a.trips[i]) => a.trips[i].trip_short_name # n
         /\ \A i \in 1..Len(a.stopTimes) :
              ~endsWith(toLowerCase(a.stopTimes[i].k), n)

IntermediateLength ==
  Returned("getIntermediateStops") =>
    LET n == Len(getStopTimesForTrip(store, ret[1].in[1]))
    IN Len(ret[1].val) = IF n >= 2 THEN n - 2 ELSE 0

\* A trip of three stop-times has one intermediate stop.
WitnessOneIntermediate ==
  /\ Returned("getIntermediateStops")
  /\ Len(SnapshotTimes(args, ret[1].in[1])) = 3
  /\ Len(getStopTimesForTrip(store, ret[1].in[1])) = 3
  /\ Len(ret[1].val) = 1

\* No index of the store holds anything: the store as constructed, which is
\* the store until the first overrideData call has filled it.
NothingLoaded(s) ==
  /\ s.routes = <<>> /\ s.stops = <<>> /\ s.stopTimes = <<>> /\ s.shapes = <<>>
  /\ s.trips = <<>> /\ s.tripsByNumber = <<>>
  /\ s.calendarEntries = <<>> /\ s.calendarDateExceptions = <<>>

\* What a query answers when it has nothing to answer from.
EmptyResult(r) ==
  CASE r.op = "getRouteName" -> "Unknown Route"
    [] r.op = "getStopName" -> r.in[1]
    [] r.op = "isServiceActiveOnDate" -> TRUE
    [] OTHER -> <<>>

\* C22: read before load.  Where a caller can read a store that holds nothing,
\* as it is before any overrideData call has completed, isLoaded is false and
\* every query returns its empty result: an empty sequence, undefined (no
\* shape, no trips under a number), the fallback name, and TRUE from the
\* calendar fallback.  A store whose flag is true is never such a store.
ReadBeforeLoad ==
  (pc = "idle" /\ NothingLoaded(store)) =>
    /\ ~isLoaded(store)
    /\ ret # <<>> => ret[1].val = EmptyResult(ret[1])
    /\ \A shapeId \in ShapeIds : getShape(store, shapeId) = <<>>
    /\ \A trainNumber \in TrainNumbers : getTripsByNumber(store, trainNumber) = <<>>

\* A search in the store as constructed: no call of overrideData has been
\* made, and the query would match a station of every snapshot with stops.
WitnessSearchBeforeLoad ==
  /\ store = NewParser
  /\ args = NoArgs
  /\ ~isLoaded(store)
  /\ Returned("search")
  /\ ret[1].in[1] = "union"
  /\ ret[1].val = <<>>

\* The pass of search that pushed a result, read off its synthetic id.
PassOf(r) ==
  IF r.type = "station" THEN 1
  ELSE IF r.type = "route" THEN 2
  ELSE IF startsWith(r.id, "train-") THEN 3
  ELSE 4

\* The place of x in q, 0 if absent.
PlaceIn(q, x) ==
  IF \E i \in 1..Len(q) : q[i] = x
  THEN CHOOSE i \in 1..Len(q) : q[i] = x /\ \A j \in 1..(i - 1) : q[j] # x
  ELSE 0

\* Where the entity of a result stands in the index its pass goes through:
\* the stop index, the route index, the list of the short-name index, the
\* stop-time index.
PlaceOf(s, n, r) ==
  CASE PassOf(r) = 1 -> PlaceIn(MapKeys(s.stops), r.data.stop_id)
    [] PassOf(r) = 2 -> PlaceIn(MapKeys(s.routes), r.data.route_id)
    [] PassOf(r) = 3 ->
         PlaceIn([i \in 1..Len(getTripsByNumber(s, n)) |->
                    getTripsByNumber(s, n)[i].trip_id], r.data.trip_id)
    [] OTHER -> PlaceIn(MapKeys(s.stopTimes), r.data.trip_id)

\* Within one trip of the last pass: the match on the trip id first, then
\* the stops in the order of their first stop-time.
StopPlaceOf(s, r) ==
  IF PassOf(r) # 4 \/ startsWith(r.id, "tripid-") THEN 0
  ELSE PlaceIn([i \in 1..Len(timesOf(s, r.data.trip_id)) |->
                  timesOf(s, r.data.trip_id)[i].stop_id], r.data.stop_id)

\* r comes before t by pass, then by place in the index, then by stop.
Before(s, n, r, t) ==
  \/ PassOf(r) < PassOf(t)
  \/ /\ PassOf(r) = PassOf(t)
     /\ \/ PlaceOf(s, n, r) < PlaceOf(s, n, t)
        \/ /\ PlaceOf(s, n, r) = PlaceOf(s, n, t)
           /\ StopPlaceOf(s, r) < StopPlaceOf(s, t)

IntermediateStopsBetweenBySequence ==
  Returned("findTripsWithStops") =>
    \A k \in 1..Len(ret[1].val) :
       LET m == ret[1].val[k]
           times == SnapshotTimes(args, m.tripId)
           inter == [i \in 1..Len(m.intermediateStops) |-> Plain(m.intermediateStops[i])]
           between == {i \in 1..Len(times) :
                          /\ m.fromStop.stop_sequence < times[i].stop_sequence
                          /\ times[i].stop_sequence < m.toStop.stop_sequence}
       IN /\ \A i \in 1..Len(inter) :
               /\ m.fromStop.stop_sequence < inter[i].stop_sequence
               /\ inter[i].stop_sequence < m.toStop.stop_sequence
          /\ \A i, j \in 1..Len(inter) :
               i < j => inter[i].stop_sequence < inter[j].stop_sequence
          /\ Len(inter) = Cardinality(between)
          /\ \A i \in between : Count(inter, times[i]) = Count(times, times[i])

\* C25: whenever search derives a train-number candidate from a query, the
\* candidate is non-empty and consists only of digits; for every other query
\* neither the short-name lookup nor the match on the end of the trip id
\* emits a result.
TrainNumberCandidateIsNumber ==
  Returned("search") =>
    LET n == trainNumberQueryOf(ret[1].in[1]) IN
    /\ n # "" => IsNumber(n)
    /\ n = "" => \A i \in 1..Len(ret[1].val) :
                    /\ ~startsWith(ret[1].val[i].id, "train-")
                    /\ ~startsWith(ret[1].val[i].id, "tripid-")

\* The key a saved reference is compared by, and the key a history entry is
\* compared by.
RefKey(r) == <<Prop(r, "tripId"), Prop(r, "fromCode"), Prop(r, "toCode"), Prop(r, "travelDate")>>
EntryKey(h) == <<Prop(h, "tripId"), Prop(h, "fromCode"), Prop(h, "toCode"), Prop(h, "date")>>

\* A delete of the same batch of calls takes the reference of call c out.
DeletedMeanwhile(c) ==
  \E d \in CallIds :
     /\ calls[d].op = "deleteTrainByTripId"
     /\ ~keptByDelete(calls[c].in[1], calls[d].in[1], calls[d].in[2], calls[d].in[3])

\* C26: the persisted lists stay duplicate-free under any interleaving of
\* saveTrainRef, addToHistory and deleteTrainByTripId calls, and once all
\* calls have finished, the entry of every call that returned true is in the
\* stored list (unless a delete among those calls removes that entry).
PersistedListsConsistent ==
  LET refs == parse(AsyncStorage.savedTrainRefs)
      history == parse(AsyncStorage.tripHistory)
  IN /\ \A i, j \in 1..Len(refs) : i # j => RefKey(refs[i]) # RefKey(refs[j])
     /\ \A i, j \in 1..Len(history) : i # j => EntryKey(history[i]) # EntryKey(history[j])
     /\ AllFinished =>
          \A c \in CallIds :
             /\ (calls[c].op = "saveTrainRef" /\ calls[c].result
                 /\ ~DeletedMeanwhile(c))
                => \E i \in 1..Len(refs) : RefKey(refs[i]) = RefKey(calls[c].in[1])
             /\ (calls[c].op = "addToHistory" /\ calls[c].result)
                => \E i \in 1..Len(history) : EntryKey(history[i]) = EntryKey(calls[c].in[1])

\* The trip ids of a sequence of matches.
MatchedTrips(matches) == {matches[i].tripId : i \in 1..Len(matches)}

\* C27: date filtering only applies to trips that have a Trip record.  With a
\* date, getTripsForStop returns every trip id that visits the stop and has no
\* Trip record, and findTripsWithStops returns every match of such a trip id
\* that it returns without a date, also when calendar data is loaded; and every
\* returned trip id that has a Trip record has a service that
\* isServiceActiveOnDate reports active on the date.
DateFilterNeedsTripRecord ==
  /\ (Returned("getTripsForStop") /\ ret[1].in[2] # <<>>) =>
       /\ \A tripId \in TripsVisiting(args, ret[1].in[1]) :
            SnapshotTrip(args, tripId) = <<>> => tripId \in SeqToSet(ret[1].val)
       /\ \A tripId \in SeqToSet(ret[1].val) :
            SnapshotTrip(args, tripId) # <<>> =>
              isServiceActiveOnDate(store, SnapshotTrip(args, tripId)[1].service_id,
                                    ret[1].in[2][1])
  /\ (Returned("findTripsWithStops") /\ ret[1].in[3] # <<>>) =>
       /\ \A m \in SeqToSet(findTripsWithStops(store, ret[1].in[1], ret[1].in[2], <<>>)) :
            SnapshotTrip(args, m.tripId) = <<>> => m \in SeqToSet(ret[1].val)
       /\ \A tripId \in MatchedTrips(ret[1].val) :
            SnapshotTrip(args, tripId) # <<>> =>
              isServiceActiveOnDate(store, SnapshotTrip(args, tripId)[1].service_id,
                                    ret[1].in[3][1])

\* Calendar data is loaded and the date leaves out a trip of the snapshot; the
\* trip id without a Trip record is matched all the same.
WitnessMatchWithoutTripRecord ==
  /\ Returned("findTripsWithStops")
  /\ ret[1].in[3] # <<>>
  /\ store.hasCalendarData
  /\ "1" \in MatchedTrips(ret[1].val)
  /\ SnapshotTrip(args, "1") = <<>>
  /\ \E tripId \in MatchedTrips(findTripsWithStops(store, ret[1].in[1], ret[1].in[2], <<>>)) :
       tripId \notin MatchedTrips(ret[1].val)

\* C28: after every load the short-name index agrees with the trip index.  For
\* every short name n, getTripsByNumber(n) holds exactly the trips of
\* getAllTrips() whose trip_short_name is n, each once, and each is the record
\* that getTrip gives for its trip_id, also when the snapshot lists a trip_id
\* more than once.
ShortNameIndexAgrees ==
  pc = "idle" =>
    \A n \in TrainNumbers \cup {"", "3"} :
       LET byNumber == getTripsByNumber(store, n)
           allTrips == MapValues(store.trips)
       IN /\ n # "" => \A i \in 1..Len(allTrips) :
               allTrips[i].trip_short_name = n => Count(byNumber, allTrips[i]) = 1
          /\ \A i \in 1..Len(byNumber) :
               /\ byNumber[i].trip_short_name = n
               /\ MapHas(store.trips, byNumber[i].trip_id)
               /\ MapGet(store.trips, byNumber[i].trip_id) = byNumber[i]
               /\ Count(byNumber, byNumber[i]) = 1

\* C29: the dedup step of findTripsWithStops removes a qualifying trip only if
\* an earlier kept match is a trip with the same short display name and the
\* same "from" departure time; a trip without a short display name or without
\* a Trip record is never merged with a different trip.
DedupOnlyMergesSameRun ==
  Returned("findTripsWithStops") =>
    LET val == ret[1].val
        sorted == SortByDeparture(
                    MatchesFrom(store, 1, ret[1].in[1], ret[1].in[2], ret[1].in[3]))
    IN \A k \in 1..Len(sorted) :
          sorted[k] \notin SeqToSet(val) =>
            \E f \in 1..(k - 1) :
               /\ sorted[f] \in SeqToSet(val)
               /\ SameRun(store, sorted[f], sorted[k])

\* C30: synthetic ids of search identify the match.  Two candidate results
\* that refer to different entities or to different (trip, stop) pairs never
\* have the same synthetic id, so that the final dedup step drops a result
\* only when an earlier one is the same match of the same entity; this also
\* for trip and stop ids that contain "-".
SyntheticIdsIdentifyMatch ==
  Returned("search") =>
    LET results == searchCandidates(store, ret[1].in[1])
    IN \A i, j \in 1..Len(results) :
          results[i].id = results[j].id =>
            /\ results[i].type = results[j].type
            /\ results[i].data = results[j].data

====
